---- MODULE Spec2Model ----
(***************************************************************************)
(* Model of the checkpointed clearing pipeline of ar_account_clearing:     *)
(*   app.py main(), engine/biaCore.py stage managers,                      *)
(*   engine/biaRecovery.py checkpoint store,                               *)
(*   engine/biaProcessor.py accumulator and dump files.                    *)
(* The SAP GUI backend (FBL5N, UDM_DISPUTE, F-30, QM02) is the             *)
(* environment: every call into it picks one of the outcomes its code can  *)
(* produce.                                                                *)
(***************************************************************************)
EXTENDS Integers, Sequences, FiniteSets, TLC

\* number of entities defined in the clearing rules
NumEntities == 2

Entities == 1..NumEntities

\* entity lists a run can be started with: all active entities
\* (get_active_entities(rules)) or one user-requested entity
\* (get_active_entities(rules, user_entity)); the empty list is handled
\* by main_no_entity
EntityLists ==
    {[i \in 1..NumEntities |-> i]} \cup {<<e>> : e \in Entities}

\* checkpoint names written by reset_entity_states
StateKeys ==
    {"fbl5n_data_exported", "fbl5n_data_converted", "fbl5n_data_no_case",
     "dms_data_exported", "dms_data_converted", "f30_input_generated",
     "f30_items_cleared", "dms_cases_processed", "data_consolidated",
     "data_analyzed", "qm_notifications_processed"}

\* keys of biaProcessor._accum
AccumKeys ==
    {"fbl5n_data", "dms_data", "consolidated_data", "analyzed_data",
     "matched_data", "clearing_input", "clearing_output",
     "dms_closing_output", "qm_closing_output"}

\* files the pipeline writes: the two backend exports and the dump files
FileKeys ==
    {"fbl5n_export", "dms_export", "fbl5n_binary", "dms_binary",
     "consolidated", "analyzed", "matched", "clearing_input",
     "clearing_output", "dms_closing_output", "qm_closing_output"}

ExportKeys == {"fbl5n_export", "dms_export"}

\* Python None
None == [tag |-> "None"]

\* the empty dict {}
EmptyMap == <<>>

VARIABLES
    rec_file,      \* recovery document: [exists, doc]
    ent_states,    \* biaRecovery._ent_states: [isNone, map]
    accum,         \* biaProcessor._accum: key -> (entity -> data)
    files,         \* export and dump files: key -> (entity -> content)
    backend,       \* what the backend has done: postings, closed cases, ...
    pc,            \* position of main()
    idx,           \* position of the running stage's loop over entits
    entits,        \* entities of the run, in processing order
    deviations,    \* steps so far in which the environment left the plain course
    sess,          \* SAP session of the run: "unset", "ok" or "None"
    success,       \* the running stage's local 'success' / 'exist_matches'
    exit_code,     \* value returned by main(), valid when pc = "exited"
    start_states,  \* history: checkpoints in memory after initialize
    prev_failure,  \* history: result of rec.initialize
    invoked,       \* history: <<entity, operation>> invoked by this run
    handled,       \* history: <<entity, stage>> loop bodies run by this run
    faults,        \* history: <<entity, stage, kind>> failures of this run
    reports,       \* history: entity -> report written by this run
    abort_cause    \* history: what ended the run early

vars == <<rec_file, ent_states, accum, files, backend, pc, idx, entits,
          deviations, sess, success, exit_code, start_states, prev_failure, invoked, handled,
          faults, reports, abort_cause>>

----
\* ---------------- biaRecovery ----------------

DefaultState == [k \in StateKeys |-> FALSE]

\* reset_entity_states(entits): default checkpoints per listed entity
reset_entity_states(ents) ==
    [e \in {ents[i] : i \in DOMAIN ents} |-> DefaultState]

\* get_entity_state raises KeyError for an entity without an entry
HasEntry(e) == e \in DOMAIN ent_states.map

get_entity_state(e, key) == ent_states.map[e][key]

\* save_entity_state: in-memory update and rewrite of the whole document
save_entity_state(states, e, key, val) ==
    [states EXCEPT ![e][key] = val]


\* clear_entity_states: empty map in memory and in the document
clear_entity_states == EmptyMap

\* rec.reset (biaRecovery 67-88): the document is emptied, the module
\* forgets its state
reset == [states |-> [isNone |-> TRUE, map |-> EmptyMap],
          file |-> [exists |-> TRUE, doc |-> clear_entity_states]]

----
\* ---------------- biaProcessor: accumulator and files ----------------

EmptyAccum == [k \in AccumKeys |-> EmptyMap]

InAccum(acc, e, key) == e \in DOMAIN acc[key]

\* a store that is never refused
CanStoreAlways(acc, e, key, force) == TRUE

\* store_to_accum: a non-forced store on an existing entry fails the
\* write-once assertion
CanStore(acc, e, key, force) == force \/ ~InAccum(acc, e, key)

Put(m, e, data) == [x \in (DOMAIN m) \cup {e} |-> IF x = e THEN data ELSE m[x]]

store_to_accum(acc, e, key, data) == [acc EXCEPT ![key] = Put(@, e, data)]

get_from_accum(acc, e, key) == acc[key][e]

\* store_to_binary / store_to_serial: (re)write the entity's file
write_file(fs, e, key, data) == [fs EXCEPT ![key] = Put(@, e, data)]

FileExists(fs, e, key) == e \in DOMAIN fs[key]

\* read_binary
read_binary(fs, e, key) == fs[key][e]

\* read_serial: an empty document reads as None
read_serial(fs, e, key) ==
    IF fs[key][e] = EmptyMap THEN None ELSE fs[key][e]

\* _clean_dump: removes every file of the dump folder
clean_dump(fs) == [k \in FileKeys |-> IF k \in ExportKeys THEN fs[k] ELSE EmptyMap]

\* clean_temp: removes every file below the temp folder (the export folders)
clean_temp(fs) == [k \in FileKeys |-> IF k \in ExportKeys THEN EmptyMap ELSE fs[k]]

----
\* ---------------- app.main: start of a run ----------------

\* The plain course of a run: every backend call succeeds, the ledger holds
\* matched items with cases, the mail is sent, nobody kills the process.
\* A behaviour departs from it in at most MaxDeviations choices.
MaxDeviations == 2

Dev(b) == IF b THEN 1 ELSE 0

Charge(n) ==
    /\ deviations + n <= MaxDeviations
    /\ deviations' = deviations + n

Terminal == {"idle", "exited", "uncaught", "killed"}

Running == pc \notin Terminal

Ent == entits[idx]

InLoop == idx \in 1..Len(entits)

NewProcess ==
    /\ ent_states' = [isNone |-> TRUE, map |-> EmptyMap]
    /\ accum' = EmptyAccum
    /\ sess' = "unset"
    /\ success' = FALSE
    /\ idx' = 0
    /\ start_states' = EmptyMap
    /\ prev_failure' = FALSE
    /\ invoked' = {}
    /\ handled' = {}
    /\ faults' = {}
    /\ reports' = EmptyMap

\* main returns 'code'
Return(code, cause) ==
    /\ pc' = "exited"
    /\ exit_code' = code
    /\ abort_cause' = cause

\* an exception leaves main: the process ends with a traceback
Uncaught(cause) ==
    /\ pc' = "uncaught"
    /\ exit_code' = exit_code
    /\ abort_cause' = cause

\* main's failure branches call disconnect_from_sap(sess) before returning;
\* sap.logout(None) raises AttributeError
CleanupAndReturn(code, cause) ==
    IF sess = "None" THEN Uncaught(cause) ELSE Return(code, cause)

\* app.py 47-53: configuration or rules cannot be loaded
main_config_fail ==
    /\ pc \in Terminal
    /\ NewProcess
    /\ entits' = <<>>
    /\ Return(1, "config")
    /\ Charge(1)
    /\ UNCHANGED <<rec_file, files, backend>>

\* app.py 55-64: no active entity
main_no_entity ==
    /\ pc \in Terminal
    /\ NewProcess
    /\ entits' = <<>>
    /\ Return(0, "no_entity")
    /\ Charge(1)
    /\ UNCHANGED <<rec_file, files, backend>>

\* app.py 47-62: configuration loaded, entities selected
main_start ==
    /\ pc \in Terminal
    /\ NewProcess
    /\ \E es \in EntityLists : entits' = es
    /\ pc' = "init"
    /\ exit_code' = 0
    /\ abort_cause' = "none"
    /\ UNCHANGED <<rec_file, files, backend, deviations>>

\* the process is killed or crashes between two steps
kill ==
    /\ Running
    /\ pc' = "killed"
    /\ abort_cause' = "killed"
    /\ Charge(1)
    /\ UNCHANGED <<rec_file, ent_states, accum, files, backend, idx, entits,
                   sess, success, exit_code, start_states,
                   prev_failure, invoked, reports, handled, faults>>

----
\* ---------------- recovery initialization and login ----------------

\* an initialization that never resumes
initialize_fresh(file, ents) ==
    [states |-> reset_entity_states(ents),
     doc |-> reset_entity_states(ents), prev |-> FALSE]

\* rec.initialize(rec_path, entits): [states, doc, prev] where prev is the
\* returned flag
initialize(file, ents) ==
    LET doc0 == IF file.exists THEN file.doc ELSE clear_entity_states
    IN  IF doc0 # EmptyMap
        THEN [states |-> doc0, doc |-> doc0, prev |-> TRUE]
        ELSE [states |-> reset_entity_states(ents),
              doc |-> reset_entity_states(ents), prev |-> FALSE]

\* core.initialize_recovery (biaCore 365-394) as called by app.py 67
initialize_recovery ==
    /\ pc = "init"
    /\ LET r == initialize(rec_file, entits)
       IN  /\ ent_states' = [isNone |-> FALSE, map |-> r.states]
           /\ rec_file' = [exists |-> TRUE, doc |-> r.doc]
           /\ prev_failure' = r.prev
           /\ start_states' = r.states
           /\ files' = IF r.prev THEN files ELSE clean_dump(files)
    /\ pc' = "connect"
    /\ UNCHANGED <<accum, backend, idx, entits, deviations, sess, success,
                   exit_code, invoked, reports, handled, faults, abort_cause>>

\* app.py 66-71: the recovery document cannot be read or written
initialize_recovery_fail ==
    /\ pc = "init"
    /\ Return(2, "recovery_io")
    /\ Charge(1)
    /\ UNCHANGED <<rec_file, ent_states, accum, files, backend, idx, entits,
                   sess, success, start_states, prev_failure,
                   invoked, reports, handled, faults>>

\* core.connect_to_sap (biaCore 314-344): a failed login is logged and None
\* is returned, so main's except branch (return 2) is not taken
connect_to_sap ==
    /\ pc = "connect"
    /\ \E s \in {"ok", "None"} : sess' = s /\ Charge(Dev(s = "None"))
    /\ pc' = "export_fbl5n"
    /\ idx' = 1
    /\ success' = FALSE
    /\ UNCHANGED <<rec_file, ent_states, accum, files, backend, entits,
                   exit_code, start_states, prev_failure, invoked,
                   reports, handled, faults, abort_cause>>

----
\* ---------------- one loop iteration of a stage manager ----------------
\* The body of a stage's loop is computed on a record of everything it can
\* change; ctl tells how the body ended: "next" (fell through or continue),
\* "raise" (an exception left the stage function), "return" (the stage
\* function returned False from inside the loop) or "killed" (the process
\* died inside the body).  fuel is the number of durable writes (document,
\* file, backend) the process still performs before it dies; NoKill stands
\* for a process that survives the body.

NoKill == 0 - 1

\* upper end of the kill points tried inside one loop body
MaxWrites == 5

KillPoints == 0..MaxWrites

Cur ==
    [states |-> ent_states.map, doc |-> rec_file.doc, accum |-> accum,
     files |-> files, backend |-> backend, success |-> success,
     invoked |-> invoked, faults |-> faults, reports |-> reports,
     ctl |-> "next", cause |-> "none",
     fuel |-> NoKill]

WithFuel(k) == [Cur EXCEPT !.fuel = k]

Ok(r) == r.ctl = "next"

Raise(r, cause) ==
    IF Ok(r) THEN [r EXCEPT !.ctl = "raise", !.cause = cause] ELSE r

ReturnFalse(r, cause) ==
    IF Ok(r) THEN [r EXCEPT !.ctl = "return", !.cause = cause] ELSE r

\* a durable write: the process may die right before it
Dies(r) == Ok(r) /\ r.fuel = 0

Killed(r) == [r EXCEPT !.ctl = "killed", !.cause = "killed"]

Burn(r) == IF r.fuel > 0 THEN [r EXCEPT !.fuel = @ - 1] ELSE r

\* rec.get_entity_state
State(r, e, key) == r.states[e][key]

\* a save that updates the map and leaves the document for later
SaveInMemory(r, e, key, val) ==
    IF ~Ok(r) THEN r
    ELSE IF e \notin DOMAIN r.states THEN Raise(r, "KeyError")
    ELSE IF Dies(r) THEN Killed(r)
    ELSE Burn([r EXCEPT !.states = save_entity_state(r.states, e, key, val)])

\* rec.save_entity_state: updates the map and rewrites the document
Save(r, e, key, val) ==
    IF ~Ok(r) THEN r
    ELSE IF e \notin DOMAIN r.states THEN Raise(r, "KeyError")
    ELSE IF Dies(r) THEN Killed(r)
    ELSE LET new == save_entity_state(r.states, e, key, val)
         IN  Burn([r EXCEPT !.states = new, !.doc = new])

\* proc.get_from_accum on a kind that holds no entry of the entity: the
\* KeyError of biaProcessor 102, told apart from that of the checkpoint map
NoEntry == "KeyError: accumulator"

\* proc.store_to_accum
Store(r, e, key, data, force) ==
    IF ~Ok(r) THEN r
    ELSE IF ~CanStore(r.accum, e, key, force) THEN Raise(r, "accum_assert")
    ELSE [r EXCEPT !.accum = store_to_accum(@, e, key, data)]

\* proc.store_to_binary / proc.store_to_serial
Write(r, e, key, data) ==
    IF ~Ok(r) THEN r
    ELSE IF Dies(r) THEN Killed(r)
    ELSE Burn([r EXCEPT !.files = write_file(@, e, key, data)])

SetSuccess(r, val) == IF ~Ok(r) THEN r ELSE [r EXCEPT !.success = val]

Invoke(r, e, op) ==
    IF ~Ok(r) THEN r ELSE [r EXCEPT !.invoked = @ \cup {<<e, op>>}]

Fault(r, e, stage, kind) ==
    IF ~Ok(r) THEN r ELSE [r EXCEPT !.faults = @ \cup {<<e, stage, kind>>}]

\* the part of a step that does not depend on how the body ended
Effects(r) ==
    /\ ent_states' = [isNone |-> FALSE, map |-> r.states]
    /\ rec_file' = [exists |-> TRUE, doc |-> r.doc]
    /\ accum' = r.accum
    /\ files' = r.files
    /\ backend' = r.backend
    /\ invoked' = r.invoked
    /\ faults' = r.faults
    /\ reports' = r.reports
    /\ UNCHANGED <<entits, sess, start_states, prev_failure>>

\* the loop goes on with the next entity
NextEntity(r, stage) ==
    /\ pc' = pc
    /\ idx' = idx + 1
    /\ success' = r.success
    /\ handled' = handled \cup {<<Ent, stage>>}
    /\ UNCHANGED <<exit_code, abort_cause>>

Stop == UNCHANGED <<idx, success, handled>>

\* the process died inside the loop body
Die ==
    /\ pc' = "killed"
    /\ abort_cause' = "killed"
    /\ UNCHANGED <<exit_code, idx, success, handled>>

\* how a body that did not run to its end leaves the stage: an exception
\* that main catches (code > 0: main returns it after cleanup), an exception
\* nobody catches, a False returned to main, or the death of the process
Ended(r, stage, caught, retcode) ==
    CASE r.ctl = "next" -> NextEntity(r, stage)
      [] r.ctl = "killed" -> Die
      [] r.ctl = "return" -> CleanupAndReturn(retcode, r.cause) /\ Stop
      [] OTHER -> /\ IF caught > 0 THEN CleanupAndReturn(caught, r.cause)
                     ELSE Uncaught(r.cause)
                  /\ Stop

\* the stage function ran its loop to the end
LoopDone(stage) == pc = stage /\ idx = Len(entits) + 1

\* main goes on with the next stage function
Goto(stage) ==
    /\ pc' = stage
    /\ idx' = 1
    /\ success' = FALSE
    /\ UNCHANGED <<rec_file, ent_states, accum, files, backend, entits,
                   deviations, sess, exit_code, start_states, prev_failure,
                   invoked, reports, handled, faults, abort_cause>>

\* a stage that opens a transaction first: dms.start / f30.start /
\* qm02.start dereference the session, which is None after a failed login
GotoStart(stage) ==
    /\ pc' = stage
    /\ idx' = 0
    /\ success' = FALSE
    /\ UNCHANGED <<rec_file, ent_states, accum, files, backend, entits,
                   deviations, sess, exit_code, start_states, prev_failure,
                   invoked, reports, handled, faults, abort_cause>>

\* a failure branch that also resets the recovery document
LeaveAndReset(code, cause) ==
    /\ CleanupAndReturn(code, cause)
    /\ rec_file' = reset.file
    /\ UNCHANGED <<ent_states, accum, files, backend, idx, entits,
                   deviations, sess, success, start_states, prev_failure,
                   invoked, reports, handled, faults>>

\* main leaves with 'code' after the stage function returned False
Leave(code, cause) ==
    /\ CleanupAndReturn(code, cause)
    /\ UNCHANGED <<rec_file, ent_states, accum, files, backend, idx, entits,
                   deviations, sess, success, start_states, prev_failure,
                   invoked, reports, handled, faults>>

----
\* ---------------- export_fbl5n_data (biaCore 414-477) ----------------

\* what a ledger export file can hold: items without any case marker, items
\* with case markers of which none / some form a clearable group, or text
\* the parser cannot convert
LedgerData == {"nocase", "nomatch", "match", "bad"}

\* outcomes of fbl5n.export: file written, NoDataFoundWarning,
\* AbapRuntimeError / WorklistNotFoundError, ConnectionLostError, and the
\* exceptions the stage does not name (FolderNotFoundError,
\* ItemsLoadingError, SapRuntimeError, ValueError)
ExportOutcomes == {"ok", "nodata", "abap", "connlost", "error"}

\* parameters of fbl5n.export(sess, file_path, company_code, worklist,
\* layout) as bound by the call of biaCore 463
ExportArgs ==
    [sess |-> "sess", file_path |-> "exp_path", company_code |-> "cocd",
     worklist |-> "worklist", layout |-> "layout"]

\* the same parameters as bound by the positional call of biaCore 472,
\* fbl5n.export(exp_path, cocd, worklist, layout): layout takes its default
RetryArgs ==
    [sess |-> "exp_path", file_path |-> "cocd", company_code |-> "worklist",
     worklist |-> "layout", layout |-> ""]

\* fbl5n.export up to _start (biaFBL5N 353-363): the folder part of
\* file_path must exist, which holds for the export path only; after that
\* the transaction is started on sess
fbl5n_export_entry(args) ==
    IF args.file_path # "exp_path" THEN "FolderNotFoundError"
    ELSE IF args.sess # "sess" THEN "AttributeError"
    ELSE "started"

\* how the re-attempt of biaCore 472 ends
fbl5n_export_retry == fbl5n_export_entry(RetryArgs)

\* handler of biaCore 468-469: logs and falls through to line 474
AfterAbapFault(r, e) == Save(r, e, "fbl5n_data_exported", TRUE)

\* a handler that advances the checkpoint of an entity without open items
AfterNoDataAdvance(r, e) == Save(r, e, "fbl5n_data_exported", TRUE)

\* handler of biaCore 465-467: continue
AfterNoData(r, e) == r

\* the export is attempted again although its checkpoint is true
ExportAgain(r, e) == FALSE

\* biaCore 446: the ledger of the entity was exported by an earlier run
AlreadyExported(r, e) == State(r, e, "fbl5n_data_exported")

export_fbl5n_body(r, e, o, c) ==
    IF e \notin DOMAIN r.states THEN Raise(r, "KeyError")
    ELSE IF AlreadyExported(r, e) THEN SetSuccess(r, TRUE)
    ELSE LET r1 == Invoke(r, e, "fbl5n_export")
         IN  IF sess = "None" THEN Raise(r1, "no_session")
             ELSE CASE o = "ok" ->
                       SetSuccess(Save(Write(r1, e, "fbl5n_export", c),
                                       e, "fbl5n_data_exported", TRUE), TRUE)
                    [] o = "nodata" ->
                       AfterNoData(Fault(r1, e, "fbl5n_export", "nodata"), e)
                    [] o = "abap" ->
                       SetSuccess(
                           AfterAbapFault(
                               Fault(r1, e, "fbl5n_export", "abap"), e), TRUE)
                    [] o = "connlost" ->
                       Raise(Invoke(Fault(r1, e, "fbl5n_export", "connlost"),
                                    e, "fbl5n_export_retry"),
                             fbl5n_export_retry)
                    [] OTHER ->
                       Raise(Fault(r1, e, "fbl5n_export", "error"),
                             "fbl5n_export_error")

\* one iteration of the loop; an exception reaches main's handler
\* (app.py 78-84)
export_fbl5n_data ==
    /\ pc = "export_fbl5n" /\ InLoop
    /\ \E o \in ExportOutcomes, c \in LedgerData, k \in KillPoints \cup {NoKill} :
         LET r == export_fbl5n_body(WithFuel(k), Ent, o, c)
         IN  /\ Charge(Dev(o # "ok") + Dev(c # "match") + Dev(k # NoKill))
             /\ Effects(r)
             /\ Ended(r, "export_fbl5n", 4, 0)

\* app.py 77: the returned flag is not used
export_fbl5n_data_return ==
    /\ LoopDone("export_fbl5n")
    /\ Goto("load_fbl5n")

----
\* ---------------- load_fbl5n_data (biaCore 479-540) ----------------

\* proc.preprocess_fbl5n_data: the converted ledger items
preprocess_fbl5n_data(content) ==
    [tag |-> "fbl5n", cases |-> content # "nocase", match |-> content = "match"]

\* core._exist_cases
exist_cases(conv) == conv.cases

AfterConversion(r, e, conv) ==
    LET r1 == Save(Write(r, e, "fbl5n_binary", conv),
                   e, "fbl5n_data_converted", TRUE)
        r2 == IF exist_cases(conv) THEN r1
              ELSE Save(r1, e, "fbl5n_data_no_case", TRUE)
    IN  SetSuccess(Store(r2, e, "fbl5n_data", conv, TRUE), TRUE)

\* biaCore 514-518
LedgerNotExported(r, e) == Store(r, e, "fbl5n_data", None, FALSE)

load_fbl5n_body(r, e) ==
    IF e \notin DOMAIN r.states THEN Raise(r, "KeyError")
    ELSE IF ~State(r, e, "fbl5n_data_exported") THEN LedgerNotExported(r, e)
    ELSE IF State(r, e, "fbl5n_data_converted")
    THEN IF ~FileExists(r.files, e, "fbl5n_binary")
         THEN Raise(r, "FileNotFoundError")
         ELSE AfterConversion(SetSuccess(r, TRUE), e,
                              read_binary(r.files, e, "fbl5n_binary"))
    ELSE LET r1 == Invoke(r, e, "fbl5n_convert")
         IN  IF ~FileExists(r.files, e, "fbl5n_export")
             THEN Raise(Fault(r1, e, "fbl5n_convert", "nofile"),
                        "fbl5n_file_missing")
             ELSE IF r.files["fbl5n_export"][e] = "bad"
             THEN Raise(Fault(r1, e, "fbl5n_convert", "parse"),
                        "fbl5n_parse_error")
             ELSE AfterConversion(r1, e,
                      preprocess_fbl5n_data(r.files["fbl5n_export"][e]))

load_fbl5n_data ==
    /\ pc = "load_fbl5n" /\ InLoop
    /\ \E k \in KillPoints \cup {NoKill} :
         LET r == load_fbl5n_body(WithFuel(k), Ent)
         IN  /\ Charge(Dev(k # NoKill))
             /\ Effects(r)
             /\ Ended(r, "load_fbl5n", 0, 0)

\* app.py 86-90
load_fbl5n_data_return ==
    /\ LoopDone("load_fbl5n")
    /\ IF success THEN GotoStart("export_dms") ELSE Leave(5, "load_fbl5n_false")

----
\* ---------------- export_dms_data (biaCore 542-609) ----------------

StartTransaction(stage, initial) ==
    /\ pc = stage /\ idx = 0
    /\ IF sess = "None"
       THEN Uncaught("no_session") /\ UNCHANGED <<idx, success>>
       ELSE /\ idx' = 1
            /\ success' = initial
            /\ UNCHANGED <<pc, exit_code, abort_cause>>
    /\ UNCHANGED <<rec_file, ent_states, accum, files, backend, entits,
                   deviations, sess, start_states, prev_failure, invoked,
                   reports, handled, faults>>

\* what a case export file can hold: case records, case records that leave
\* the root cause of a matched group unresolved, or text the parser cannot
\* convert
DmsData == {"cases", "noroot", "bad"}

\* outcomes of dms.search_disputes followed by dms.export: file written,
\* no case found, export failed
DmsOutcomes == {"ok", "notfound", "exportfail"}

\* dms.search_disputes (biaDMS 611-616) builds the NoCaseFoundError message
\* with "; ".join(cases) over integer case numbers: the join raises
\* TypeError, which export_dms_data does not catch
search_disputes_not_found == "TypeError"

export_dms_body(r, e, o, c) ==
    IF e \notin DOMAIN r.states THEN Raise(r, "KeyError")
    ELSE IF State(r, e, "fbl5n_data_no_case") THEN r
    ELSE IF ~State(r, e, "fbl5n_data_exported") THEN r
    ELSE IF ~InAccum(r.accum, e, "fbl5n_data") THEN Raise(r, NoEntry)
    ELSE IF get_from_accum(r.accum, e, "fbl5n_data") = None
    THEN Raise(r, "TypeError")
    ELSE IF State(r, e, "dms_data_exported") THEN r
    ELSE LET r1 == Invoke(r, e, "dms_export")
         IN  CASE o = "notfound" ->
                  Raise(Fault(r1, e, "dms_export", "notfound"),
                        search_disputes_not_found)
               [] o = "exportfail" ->
                  ReturnFalse(Fault(r1, e, "dms_export", "exportfail"),
                              "dms_export_failed")
               [] OTHER ->
                  Save(Write(r1, e, "dms_export", c),
                       e, "dms_data_exported", TRUE)

export_dms_data_start ==
    /\ pc = "export_dms"
    /\ StartTransaction("export_dms", FALSE)

export_dms_data ==
    /\ pc = "export_dms" /\ InLoop
    /\ \E o \in DmsOutcomes, c \in DmsData, k \in KillPoints \cup {NoKill} :
         LET r == export_dms_body(WithFuel(k), Ent, o, c)
         IN  /\ Charge(Dev(o # "ok") + Dev(c # "cases") + Dev(k # NoKill))
             /\ Effects(r)
             /\ Ended(r, "export_dms", 0, 6)

\* biaCore 607-609 and app.py 92-96: the loop ended, True is returned
export_dms_data_return ==
    /\ LoopDone("export_dms")
    /\ Goto("load_dms")

----
\* ---------------- load_dms_data (biaCore 611-661) ----------------

\* proc.preprocess_dms_data: the converted case records
preprocess_dms_data(content) == [tag |-> "dms", root |-> content # "noroot"]

load_dms_body(r, e) ==
    IF e \notin DOMAIN r.states THEN Raise(r, "KeyError")
    ELSE IF ~State(r, e, "dms_data_exported") THEN SetSuccess(r, TRUE)
    ELSE IF ~State(r, e, "dms_data_converted")
    THEN LET r1 == Invoke(r, e, "dms_convert")
         IN  IF ~FileExists(r.files, e, "dms_export")
             THEN Raise(Fault(r1, e, "dms_convert", "nofile"),
                        "dms_file_missing")
             ELSE IF r.files["dms_export"][e] = "bad"
             THEN Raise(Fault(r1, e, "dms_convert", "parse"),
                        "dms_parse_error")
             ELSE LET conv == preprocess_dms_data(r.files["dms_export"][e])
                  IN  SetSuccess(
                          Store(Save(Write(r1, e, "dms_binary", conv),
                                     e, "dms_data_converted", TRUE),
                                e, "dms_data", conv, TRUE),
                          conv # None)
    ELSE IF ~FileExists(r.files, e, "dms_binary")
    THEN Raise(r, "FileNotFoundError")
    ELSE LET conv == read_binary(r.files, e, "dms_binary")
         IN  SetSuccess(Store(r, e, "dms_data", conv, TRUE), conv # None)

load_dms_data ==
    /\ pc = "load_dms" /\ InLoop
    /\ \E k \in KillPoints \cup {NoKill} :
         LET r == load_dms_body(WithFuel(k), Ent)
         IN  /\ Charge(Dev(k # NoKill))
             /\ Effects(r)
             /\ Ended(r, "load_dms", 0, 0)

\* app.py 98-102
load_dms_data_return ==
    /\ LoopDone("load_dms")
    /\ IF success THEN Goto("consolidate") ELSE Leave(7, "load_dms_false")

----
\* ---------------- consolidate_data (biaCore 663-735) ----------------

\* the customer lookup file of the company code: absent, naming every
\* head office of the entity, or lacking one
CustData == {"absent", "complete", "incomplete"}

\* proc.consolidate (biaProcessor 612-671): None when the lookup is given
\* and a joined row has no customer name
consolidate(fbl5n, dms, cust) ==
    IF cust = "incomplete" THEN None
    ELSE [tag |-> "consolidated", match |-> fbl5n.match, root |-> dms.root]

\* biaCore 725-728: continue with the next entity
ConsolidNone(r, e) == r

consolidate_body(r, e, cust) ==
    IF e \notin DOMAIN r.states THEN Raise(r, "KeyError")
    ELSE IF ~State(r, e, "dms_data_exported")
    THEN SetSuccess(Store(r, e, "consolidated_data", None, FALSE), TRUE)
    ELSE IF State(r, e, "data_consolidated")
    THEN IF ~FileExists(r.files, e, "consolidated")
         THEN Raise(r, "FileNotFoundError")
         ELSE SetSuccess(
                  Store(r, e, "consolidated_data",
                        read_binary(r.files, e, "consolidated"), FALSE), TRUE)
    ELSE IF ~InAccum(r.accum, e, "fbl5n_data") \/ ~InAccum(r.accum, e, "dms_data")
    THEN Raise(r, NoEntry)
    ELSE LET r1 == Invoke(r, e, "consolidate")
             consolid == consolidate(get_from_accum(r.accum, e, "fbl5n_data"),
                                     get_from_accum(r.accum, e, "dms_data"),
                                     cust)
         IN  IF consolid = None
             THEN ConsolidNone(Fault(r1, e, "consolidate", "cust_missing"), e)
             ELSE SetSuccess(
                      Save(Store(Write(r1, e, "consolidated", consolid),
                                 e, "consolidated_data", consolid, TRUE),
                           e, "data_consolidated", TRUE),
                      TRUE)

consolidate_data ==
    /\ pc = "consolidate" /\ InLoop
    /\ \E cust \in CustData, k \in KillPoints \cup {NoKill} :
         LET r == consolidate_body(WithFuel(k), Ent, cust)
         IN  /\ Charge(Dev(cust = "incomplete") + Dev(k # NoKill))
             /\ Effects(r)
             /\ Ended(r, "consolidate", 0, 0)

\* app.py 104-108
consolidate_data_return ==
    /\ LoopDone("consolidate")
    /\ IF success THEN Goto("generate") ELSE Leave(8, "consolidate_false")

----
\* ---------------- generate_clearing_input (biaCore 737-831) ----------------

\* document currencies, in the order instruction documents list them
CurrOrder == <<"EUR", "USD">>

Currencies == {CurrOrder[i] : i \in DOMAIN CurrOrder}

\* identifiers of the instruction records
GroupIds == {"g1", "g2", "g3"}

\* proc.evaluate_items / proc.get_matched_items on the consolidated data
evaluate_items(consolid) ==
    [tag |-> "analyzed", match |-> consolid.match, root |-> consolid.root]

get_matched_items(analyzed) ==
    [tag |-> "matched", rows |-> analyzed.match, root |-> analyzed.root]

\* one instruction record of proc.create_clearing_input (biaProcessor
\* 1065-1081)
NewRecord(skipped, cases, rootcause, notif) ==
    [Skipped |-> skipped, Case_IDs |-> cases, Root_Cause |-> rootcause,
     Notification |-> notif, F30_Clearing_Status |-> "",
     DMS_Closing_Status |-> "", QM_Closing_Status |-> ""]

\* one currency bucket (biaProcessor 1085-1092); ids tells whether the
\* record keys are numbers (as built) or strings (as read back from JSON)
NewBucket(records) ==
    [records |-> records, F30_Clearing_Status |-> "", Posting_Number |-> 0,
     Cleared |-> FALSE, ids |-> "int"]

\* proc.create_clearing_input: one bucket per currency of the matched items,
\* one record per identifier; the matched items of an exported ledger form
\* one group in one currency
create_clearing_input(matched) ==
    [c \in {"EUR"} |->
        NewBucket([g \in {"g1"} |-> NewRecord(FALSE, <<"c1">>, "L01", "std")])]

\* json.dump / json.loads of an instruction document: keys become strings
to_json(data) ==
    IF data = EmptyMap \/ data = None THEN data
    ELSE [c \in DOMAIN data |-> [data[c] EXCEPT !.ids = "str"]]

NotConsolidatedUnstored(r, e) == r

\* biaCore 779-787
NotConsolidated(r, e) ==
    Store(Store(Store(r, e, "clearing_input", None, FALSE),
                e, "analyzed_data", None, FALSE),
          e, "matched_data", None, FALSE)

\* biaCore 804-808
StoreEvaluated(r, e, analyzed, matched) ==
    Save(Write(Write(Store(Store(r, e, "analyzed_data", analyzed, FALSE),
                           e, "matched_data", matched, FALSE),
                     e, "analyzed", analyzed),
               e, "matched", matched),
         e, "data_analyzed", TRUE)

\* what the rules of an entity say about the cost centers of the GL
\* account its groups are written off to: one for trade and retail, or two
EntRuleKinds == {"one_cost_center", "cost_centers_differ"}

\* the assertion of create_clearing_input that fails, if any: the root cause
\* (biaProcessor 1031-1032) comes before the cost center (1045), which
\* fails whenever the cost centers differ, no customer data being passed
\* by biaCore 827
Violation(matched, ent_rules) ==
    IF ~matched.root THEN "noroot"
    ELSE IF ent_rules = "cost_centers_differ" THEN "costcenter"
    ELSE ""

\* a failed assertion that is recorded and passed over
InstructionFaultLogged(r, e, kind) == Fault(r, e, "generate", kind)

\* the exception leaves create_clearing_input and generate_clearing_input
InstructionFault(r, e, kind) ==
    Raise(Fault(r, e, "generate", kind),
          IF kind = "noroot" THEN "root_cause_unresolved" ELSE "AssertionError")

\* biaCore 810-829
BuildInput(r, e, matched, ent_rules) ==
    IF ~matched.rows
    THEN Write(Store(r, e, "clearing_input", None, FALSE),
               e, "clearing_input", EmptyMap)
    ELSE LET r1 == SetSuccess(r, TRUE)
         IN  IF ~Ok(r1) THEN r1
             ELSE IF State(r1, e, "f30_input_generated")
             THEN IF ~FileExists(r1.files, e, "clearing_input")
                  THEN Raise(r1, "FileNotFoundError")
                  ELSE Store(r1, e, "clearing_input",
                             read_serial(r1.files, e, "clearing_input"), FALSE)
             ELSE LET r2 == Invoke(r1, e, "create_clearing_input")
                      kind == Violation(matched, ent_rules)
                      r3 == IF kind # "" THEN InstructionFault(r2, e, kind)
                            ELSE r2
                      clr == create_clearing_input(matched)
                  IN  Save(Store(Write(r3, e, "clearing_input", to_json(clr)),
                                 e, "clearing_input", clr, FALSE),
                           e, "f30_input_generated", TRUE)

generate_body(r, e, ent_rules) ==
    IF e \notin DOMAIN r.states THEN Raise(r, "KeyError")
    ELSE IF ~State(r, e, "data_consolidated") THEN NotConsolidated(r, e)
    ELSE IF State(r, e, "data_analyzed")
    THEN IF ~FileExists(r.files, e, "analyzed") \/ ~FileExists(r.files, e, "matched")
         THEN Raise(r, "FileNotFoundError")
         ELSE BuildInput(
                  StoreEvaluated(r, e, read_binary(r.files, e, "analyzed"),
                                 read_binary(r.files, e, "matched")),
                  e, read_binary(r.files, e, "matched"), ent_rules)
    ELSE IF ~InAccum(r.accum, e, "consolidated_data") THEN Raise(r, NoEntry)
    ELSE LET analyzed ==
                 evaluate_items(get_from_accum(r.accum, e, "consolidated_data"))
             matched == get_matched_items(analyzed)
         IN  BuildInput(StoreEvaluated(Invoke(r, e, "evaluate"), e,
                                       analyzed, matched),
                        e, matched, ent_rules)

generate_clearing_input ==
    /\ pc = "generate" /\ InLoop
    /\ \E ent_rules \in EntRuleKinds, k \in KillPoints \cup {NoKill} :
         LET r == generate_body(WithFuel(k), Ent, ent_rules)
         IN  /\ Charge(Dev(ent_rules # "one_cost_center") + Dev(k # NoKill))
             /\ Effects(r)
             /\ Ended(r, "generate", 0, 0)

\* app.py 110: posting and closing run only when some entity has matches
generate_clearing_input_return ==
    /\ LoopDone("generate")
    /\ IF success THEN GotoStart("clear") ELSE Goto("report")

----
\* ---------------- clear_open_items (biaCore 833-956) ----------------

\* postings counted per (entity, currency) saturate here
MaxPosts == 2

\* outcomes of f30.load_account_items / select_and_transfer / post_items:
\* posted, load_account_items raised, select_and_transfer raised
\* ItemSelectionError (it never returns None, and clear_open_items calls it
\* outside any try), post_items raised ItemPostingError
PostOutcomes == {"ok", "loadfail", "selectfail", "postfail"}

\* f30.post_items succeeded: the backend holds one more clearing document
Post(r, e, c) ==
    IF ~Ok(r) THEN r
    ELSE IF Dies(r) THEN Killed(r)
    ELSE Burn([r EXCEPT !.backend.posts[e][c] =
                            IF @ < MaxPosts THEN @ + 1 ELSE @])

\* a test of the flag that excludes nothing
ExcludedNever(record) == FALSE

\* biaCore 903, 1021, 1131: the record is excluded from clearing
Excluded(record) == record["Skipped"]

\* biaCore 901-909: skipped records get a warning status
MarkSkipped(records) ==
    [g \in DOMAIN records |->
        IF Excluded(records[g])
        THEN [records[g] EXCEPT !.F30_Clearing_Status = "WARNING"]
        ELSE records[g]]

\* biaCore 911
AllSkipped(records) == \A g \in DOMAIN records : Excluded(records[g])

\* clr_records and case_nums (biaCore 901-905) as handed to
\* f30.select_and_transfer (926-928)
Handed(e, c, records) ==
    UNION {{<<e, c, g, records[g].Case_IDs[i]>> : i \in DOMAIN records[g].Case_IDs} :
               g \in {x \in DOMAIN records : ~Excluded(records[x])}}

\* f30.select_and_transfer is called with the records and case numbers
Select(r, e, c, records) ==
    IF ~Ok(r) THEN r
    ELSE [r EXCEPT !.backend.handed = @ \cup Handed(e, c, records)]

PostStatus(o) ==
    CASE o = "ok" -> "Item cleared."
      [] o = "loadfail" -> "ERROR: Could not load items from account(s)"
      [] OTHER -> "ERROR: posting"

\* biaCore 892-947 for one currency: st = [r, data, posted]
clear_currency(st, e, c, o) ==
    LET params == [st.data[c] EXCEPT !.records = MarkSkipped(@)]
        r1 == Invoke(st.r, e, "f30_load")
    IN  IF ~Ok(st.r) THEN st
        ELSE IF AllSkipped(params.records)
        THEN [st EXCEPT !.data[c] = params]
        ELSE IF o = "loadfail"
        THEN [st EXCEPT !.r = Fault(r1, e, "clear", o),
                        !.data[c] = [params EXCEPT
                                        !.Cleared = FALSE,
                                        !.F30_Clearing_Status = PostStatus(o)]]
        ELSE IF o = "selectfail"
        THEN [st EXCEPT !.r = Raise(Fault(Select(r1, e, c, params.records),
                                          e, "clear", o),
                                    "ItemSelectionError"),
                        !.data[c] = params]
        ELSE IF o # "ok"
        THEN [st EXCEPT !.r = Fault(Select(r1, e, c, params.records),
                                    e, "clear", o),
                        !.data[c] = [params EXCEPT
                                        !.Cleared = FALSE,
                                        !.F30_Clearing_Status = PostStatus(o)]]
        ELSE LET r2 == Post(Invoke(Select(r1, e, c, params.records),
                                   e, "f30_post"), e, c)
             IN  IF ~Ok(r2) THEN [st EXCEPT !.r = r2]
                 ELSE [st EXCEPT !.r = r2, !.posted = TRUE,
                                 !.data[c] = [params EXCEPT
                                        !.Cleared = TRUE,
                                        !.F30_Clearing_Status = PostStatus(o),
                                        !.Posting_Number = 1]]

RECURSIVE clear_currencies(_, _, _, _)
clear_currencies(st, e, cs, outs) ==
    IF cs = <<>> THEN st
    ELSE clear_currencies(
             IF Head(cs) \in DOMAIN st.data
             THEN clear_currency(st, e, Head(cs), outs[Head(cs)]) ELSE st,
             e, Tail(cs), outs)

\* Instruction documents are copied with dict.copy(): the copy is shallow,
\* so the currency buckets changed through the copy are the very objects
\* held by the accumulator entries the copy was taken from.  Every document
\* entry of the entity that held the old buckets holds the new ones.
DocKeys == {"clearing_input", "clearing_output", "dms_closing_output"}

Shared(r, e, old, new) ==
    IF ~Ok(r) THEN r
    ELSE [r EXCEPT !.accum =
             [k \in AccumKeys |->
                 IF k \in DocKeys /\ e \in DOMAIN @[k] /\ @[k][e] = old
                 THEN Put(@[k], e, new) ELSE @[k]]]

\* biaCore 949-952
AfterPosting(st, e) ==
    LET r1 == Shared(st.r, e, get_from_accum(st.r.accum, e, "clearing_input"),
                     st.data)
        r2 == Save(r1, e, "f30_items_cleared", st.posted)
        r3 == Store(r2, e, "clearing_output", st.data, FALSE)
        r4 == Write(r3, e, "clearing_output", to_json(st.data))
    IN  SetSuccess(r4, r4.success \/ st.posted)

\* a gate that never finds the items cleared
AlreadyClearedNever(r, e) == FALSE

\* biaCore 880: the items of the entity were cleared by an earlier run
AlreadyCleared(r, e) == State(r, e, "f30_items_cleared")

clear_body(r, e, outs) ==
    IF ~InAccum(r.accum, e, "clearing_input") THEN Raise(r, NoEntry)
    ELSE IF get_from_accum(r.accum, e, "clearing_input") = None
    THEN SetSuccess(Store(r, e, "clearing_output", None, FALSE), TRUE)
    ELSE IF e \notin DOMAIN r.states THEN Raise(r, "KeyError")
    ELSE IF AlreadyCleared(r, e)
    THEN IF ~FileExists(r.files, e, "clearing_output")
         THEN Raise(r, "FileNotFoundError")
         ELSE SetSuccess(
                  Store(r, e, "clearing_output",
                        read_serial(r.files, e, "clearing_output"), FALSE),
                  TRUE)
    ELSE AfterPosting(
             clear_currencies(
                 [r |-> r, posted |-> FALSE,
                  data |-> get_from_accum(r.accum, e, "clearing_input")],
                 e, CurrOrder, outs),
             e)

clear_open_items_start ==
    /\ pc = "clear"
    /\ StartTransaction("clear", FALSE)

\* the buckets of the entity's instruction document that hold a record to
\* clear: the backend is called for these only
Postable(e) ==
    IF ~InAccum(accum, e, "clearing_input") THEN {}
    ELSE LET clr_input == get_from_accum(accum, e, "clearing_input")
         IN  IF clr_input = None THEN {}
             ELSE {c \in DOMAIN clr_input : ~AllSkipped(clr_input[c].records)}

clear_open_items ==
    /\ pc = "clear" /\ InLoop
    /\ \E outs \in [Currencies -> PostOutcomes], k \in KillPoints \cup {NoKill} :
         LET r == clear_body(WithFuel(k), Ent, outs)
         IN  /\ \A c \in Currencies \ Postable(Ent) : outs[c] = "ok"
             /\ Charge(Cardinality({c \in Currencies : outs[c] # "ok"}) + Dev(k # NoKill))
             /\ Effects(r)
             /\ Ended(r, "clear", 0, 0)

\* app.py 112-116
clear_open_items_return ==
    /\ LoopDone("clear")
    /\ IF success THEN GotoStart("close_disputes") ELSE Leave(9, "clear_false")

----
\* ---------------- close_disputes (biaCore 958-1059) ----------------

\* a bucket test that lets every bucket through
BucketAny(params) == TRUE

\* biaCore 1009, 1120: the bucket was posted
BucketCleared(params) == params["Cleared"]

\* outcomes of closing one case: dms.modify_case_parameters succeeded, it
\* raised (every exception is caught and turned into a status), or
\* dms.search_dispute raised NoCaseFoundError (called outside the try)
CaseOutcomes == {"ok", "fail", "notfound"}

CaseStatus(o) == IF o = "ok" THEN "Case closed." ELSE "ERROR: case"

\* a successful dms.modify_case_parameters closes the case in the backend
CloseCase(r, e, case) ==
    IF ~Ok(r) THEN r
    ELSE IF Dies(r) THEN Killed(r)
    ELSE Burn([r EXCEPT !.backend.closed = @ \cup {<<e, case>>}])

\* biaCore 1026-1053 for the cases of one record: st = [r, rec]; the status
\* is assigned once per case, so the last case decides what is kept
RECURSIVE close_cases(_, _, _, _)
close_cases(st, e, cases, outs) ==
    IF cases = <<>> \/ ~Ok(st.r) THEN st
    ELSE LET case == Head(cases)
             o == outs[case]
             r1 == Invoke(st.r, e, "dms_close")
         IN  close_cases(
                 IF o = "notfound"
                 THEN [st EXCEPT !.r = Raise(Fault(r1, e, "close_disputes", o),
                                             "NoCaseFoundError")]
                 ELSE IF o = "fail"
                 THEN [st EXCEPT !.r = Fault(r1, e, "close_disputes", o),
                                 !.rec.DMS_Closing_Status = CaseStatus(o)]
                 ELSE LET r2 == CloseCase(r1, e, case)
                      IN  IF ~Ok(r2) THEN [st EXCEPT !.r = r2]
                          ELSE [st EXCEPT !.r = r2,
                                    !.rec.DMS_Closing_Status = CaseStatus(o)],
                 e, Tail(cases), outs)

\* the records of one cleared bucket, in key order: st = [r, records]
RECURSIVE close_records(_, _, _, _)
close_records(st, e, gs, outs) ==
    IF gs = {} \/ ~Ok(st.r) THEN st
    ELSE LET g == CHOOSE x \in gs : TRUE
             rec == st.records[g]
             res == IF Excluded(rec)
                    THEN [r |-> st.r,
                          rec |-> [rec EXCEPT !.DMS_Closing_Status = "WARNING"]]
                    ELSE close_cases([r |-> st.r, rec |-> rec], e,
                                     rec.Case_IDs, outs)
         IN  close_records([r |-> res.r,
                            records |-> [st.records EXCEPT ![g] = res.rec]],
                           e, gs \ {g}, outs)

\* the buckets of the entity: st = [r, data]
RECURSIVE close_currencies(_, _, _, _)
close_currencies(st, e, cs, outs) ==
    IF cs = <<>> \/ ~Ok(st.r) THEN st
    ELSE LET c == Head(cs)
         IN  close_currencies(
                 IF c \notin DOMAIN st.data \/ ~BucketCleared(st.data[c]) THEN st
                 ELSE LET res == close_records(
                                     [r |-> st.r,
                                      records |-> st.data[c].records],
                                     e, DOMAIN st.data[c].records, outs)
                      IN  [r |-> res.r,
                           data |-> [st.data EXCEPT ![c].records = res.records]],
                 e, Tail(cs), outs)

\* biaCore 1055-1057
AfterClosing(st, e) ==
    Write(Store(Save(Shared(st.r, e,
                            get_from_accum(st.r.accum, e, "clearing_output"),
                            st.data),
                     e, "dms_cases_processed", TRUE),
                e, "dms_closing_output", st.data, FALSE),
          e, "dms_closing_output", to_json(st.data))

\* case closing that does not look at the posting checkpoint
ClosingUngated(r, e) == FALSE

\* biaCore 999-1003: nothing was posted for the entity
ItemsNotCleared(r, e) == ~State(r, e, "f30_items_cleared")

close_disputes_body(r, e, outs) ==
    IF e \notin DOMAIN r.states THEN Raise(r, "KeyError")
    ELSE IF State(r, e, "fbl5n_data_no_case") THEN r
    ELSE IF State(r, e, "dms_cases_processed")
    THEN IF ~FileExists(r.files, e, "dms_closing_output")
         THEN Raise(r, "FileNotFoundError")
         ELSE Store(r, e, "dms_closing_output",
                    read_serial(r.files, e, "dms_closing_output"), FALSE)
    ELSE IF ItemsNotCleared(r, e) THEN r
    ELSE IF ~InAccum(r.accum, e, "clearing_output") THEN Raise(r, NoEntry)
    ELSE IF get_from_accum(r.accum, e, "clearing_output") = None
    THEN Raise(r, "AssertionError")
    ELSE AfterClosing(
             close_currencies(
                 [r |-> r, data |-> get_from_accum(r.accum, e, "clearing_output")],
                 e, CurrOrder, outs),
             e)

\* case identifiers that occur in instruction records
CaseIds == {"c1", "c2", "c3"}

\* the cases of the entity's posting output: the backend is asked to close
\* none but these
CasesOf(e) ==
    IF ~InAccum(accum, e, "clearing_output") THEN {}
    ELSE LET clearing_out == get_from_accum(accum, e, "clearing_output")
         IN  IF clearing_out = None THEN {}
             ELSE UNION {{clearing_out[c].records[g].Case_IDs[i] :
                              i \in DOMAIN clearing_out[c].records[g].Case_IDs} :
                         <<c, g>> \in {<<x, y>> \in Currencies \X GroupIds :
                                          /\ x \in DOMAIN clearing_out
                                          /\ y \in DOMAIN clearing_out[x].records}}

close_disputes_start ==
    /\ pc = "close_disputes"
    /\ StartTransaction("close_disputes", FALSE)

close_disputes ==
    /\ pc = "close_disputes" /\ InLoop
    /\ \E outs \in [CaseIds -> CaseOutcomes], k \in KillPoints \cup {NoKill} :
         LET r == close_disputes_body(WithFuel(k), Ent, outs)
         IN  /\ \A c \in CaseIds \ CasesOf(Ent) : outs[c] = "ok"
             /\ Charge(Cardinality({c \in CaseIds : outs[c] # "ok"}) + Dev(k # NoKill))
             /\ Effects(r)
             /\ Ended(r, "close_disputes", 0, 0)

\* biaCore 1059 and app.py 118: nothing is returned
close_disputes_return ==
    /\ LoopDone("close_disputes")
    /\ GotoStart("close_notifs")

----
\* ---------------- close_notifications (biaCore 1061-1190) ----------------

\* outcomes of qm02.search_notification and qm02.complete_notification:
\* completed, completion raised, NotificationSearchError,
\* NotificationCompletionWarning, TransactionNotStartedError
NotifOutcomes == {"ok", "fail", "searcherr", "already", "notstarted"}

NotifStatus(o) ==
    CASE o = "ok" -> "Notification closed."
      [] o = "fail" -> "ERROR: Attempt to complete the notification failed."
      [] o = "searcherr" -> "ERROR: search"
      [] OTHER -> "WARNING: Notification already closed."

\* a successful qm02.complete_notification closes it in the backend
CloseNotification(r, e, g) ==
    IF ~Ok(r) THEN r
    ELSE IF Dies(r) THEN Killed(r)
    ELSE Burn([r EXCEPT !.backend.notified = @ \cup {<<e, g>>}])

\* biaCore 1129-1182 for one record: st = [r, rec]
notify_record(st, e, g, o) ==
    LET rec == st.rec
        r1 == Invoke(st.r, e, "qm_search")
    IN  IF Excluded(rec) \/ rec.Notification = "301" \/ rec.Root_Cause = "L06"
        THEN [st EXCEPT !.rec.QM_Closing_Status = "WARNING"]
        ELSE CASE o = "notstarted" ->
                  [st EXCEPT !.r = ReturnFalse(
                                       Fault(r1, e, "close_notifs", o),
                                       "qm02_not_started")]
               [] o \in {"searcherr", "already"} ->
                  [st EXCEPT !.r = Fault(r1, e, "close_notifs", o),
                             !.rec.QM_Closing_Status = NotifStatus(o)]
               [] o = "fail" ->
                  [st EXCEPT !.r = Fault(Invoke(r1, e, "qm_complete"),
                                         e, "close_notifs", o),
                             !.rec.QM_Closing_Status = NotifStatus(o)]
               [] OTHER ->
                  LET r2 == CloseNotification(Invoke(r1, e, "qm_complete"), e, g)
                  IN  IF ~Ok(r2) THEN [st EXCEPT !.r = r2]
                      ELSE [st EXCEPT !.r = r2,
                                      !.rec.QM_Closing_Status = NotifStatus(o)]

RECURSIVE notify_records(_, _, _, _)
notify_records(st, e, gs, outs) ==
    IF gs = {} \/ ~Ok(st.r) THEN st
    ELSE LET g == CHOOSE x \in gs : TRUE
             res == notify_record([r |-> st.r, rec |-> st.records[g]],
                                  e, g, outs[g])
         IN  notify_records([r |-> res.r,
                             records |-> [st.records EXCEPT ![g] = res.rec]],
                            e, gs \ {g}, outs)

RECURSIVE notify_currencies(_, _, _, _)
notify_currencies(st, e, cs, outs) ==
    IF cs = <<>> \/ ~Ok(st.r) THEN st
    ELSE LET c == Head(cs)
         IN  notify_currencies(
                 IF c \notin DOMAIN st.data \/ ~BucketCleared(st.data[c]) THEN st
                 ELSE LET res == notify_records(
                                     [r |-> st.r,
                                      records |-> st.data[c].records],
                                     e, DOMAIN st.data[c].records, outs)
                      IN  [r |-> res.r,
                           data |-> [st.data EXCEPT ![c].records = res.records]],
                 e, Tail(cs), outs)

\* biaCore 1184-1186
AfterNotifying(st, e) ==
    Write(Store(Save(Shared(st.r, e,
                            get_from_accum(st.r.accum, e, "dms_closing_output"),
                            st.data),
                     e, "qm_notifications_processed", TRUE),
                e, "qm_closing_output", st.data, FALSE),
          e, "qm_closing_output", to_json(st.data))

close_notifications_body(r, e, outs) ==
    IF e \notin DOMAIN r.states THEN Raise(r, "KeyError")
    ELSE IF State(r, e, "fbl5n_data_no_case") THEN r
    ELSE IF ~State(r, e, "f30_items_cleared") THEN r
    ELSE IF State(r, e, "qm_notifications_processed")
    THEN IF ~FileExists(r.files, e, "qm_closing_output")
         THEN Raise(r, "FileNotFoundError")
         ELSE SetSuccess(
                  Store(r, e, "qm_closing_output",
                        read_serial(r.files, e, "qm_closing_output"), FALSE),
                  TRUE)
    ELSE IF ~InAccum(r.accum, e, "dms_closing_output") THEN Raise(r, NoEntry)
    ELSE IF get_from_accum(r.accum, e, "dms_closing_output") = None
    THEN Raise(r, "AssertionError")
    ELSE AfterNotifying(
             notify_currencies(
                 [r |-> r,
                  data |-> get_from_accum(r.accum, e, "dms_closing_output")],
                 e, CurrOrder, outs),
             e)

\* the records of the entity's case-closing output: notifications are
\* searched for none but these
GroupsOf(e) ==
    IF ~InAccum(accum, e, "dms_closing_output") THEN {}
    ELSE LET dms_closing_out == get_from_accum(accum, e, "dms_closing_output")
         IN  IF dms_closing_out = None THEN {}
             ELSE UNION {DOMAIN dms_closing_out[c].records :
                             c \in DOMAIN dms_closing_out}

close_notifications_start ==
    /\ pc = "close_notifs"
    /\ StartTransaction("close_notifs", TRUE)

close_notifications ==
    /\ pc = "close_notifs" /\ InLoop
    /\ \E outs \in [GroupIds -> NotifOutcomes], k \in KillPoints \cup {NoKill} :
         LET r == close_notifications_body(WithFuel(k), Ent, outs)
         IN  /\ \A g \in GroupIds \ GroupsOf(Ent) : outs[g] = "ok"
             /\ Charge(Cardinality({g \in GroupIds : outs[g] # "ok"}) + Dev(k # NoKill))
             /\ Effects(r)
             /\ Ended(r, "close_notifs", 0, 10)

\* app.py 120-124
close_notifications_return ==
    /\ LoopDone("close_notifs")
    /\ IF success THEN Goto("report") ELSE Leave(10, "close_notifs_false")

----
\* ---------------- report_output (biaCore 1192-1299) ----------------

\* proc.convert_processing_output (biaProcessor 1096-1139)
convert_processing_output(data) ==
    IF data = None THEN [tag |-> "No items to clear found."]
    ELSE [tag |-> "cleared", data |-> data]

\* report.create
WriteReport(r, e, all_itms, clr_itms) ==
    IF ~Ok(r) THEN r
    ELSE IF Dies(r) THEN Killed(r)
    ELSE Burn([r EXCEPT !.reports =
                  Put(@, e, [all_items |-> all_itms, cleared |-> clr_itms])])

report_body(r, e) ==
    IF e \notin DOMAIN r.states THEN Raise(r, "KeyError")
    ELSE IF State(r, e, "qm_notifications_processed")
            /\ ~InAccum(r.accum, e, "qm_closing_output")
    THEN Raise(r, NoEntry)
    ELSE IF ~State(r, e, "fbl5n_data_exported") THEN r
    ELSE LET qm_closing_output ==
                 IF State(r, e, "qm_notifications_processed")
                 THEN get_from_accum(r.accum, e, "qm_closing_output")
                 ELSE None
             key == IF State(r, e, "data_analyzed") THEN "analyzed_data"
                    ELSE "fbl5n_data"
         IN  IF ~InAccum(r.accum, e, key) THEN Raise(r, NoEntry)
             ELSE WriteReport(r, e, get_from_accum(r.accum, e, key),
                              convert_processing_output(qm_closing_output))

report_output ==
    /\ pc = "report" /\ InLoop
    /\ \E k \in KillPoints \cup {NoKill} :
         LET r == report_body(WithFuel(k), Ent)
         IN  /\ Charge(Dev(k # NoKill))
             /\ Effects(r)
             /\ Ended(r, "report", 0, 0)

\* biaCore 1254-1299 and app.py 127-130: the notification is sent, sending
\* is disabled, or sending fails
report_output_return ==
    /\ LoopDone("report")
    /\ \E mail \in {"sent", "failed"} :
         IF mail = "failed"
         THEN /\ CleanupAndReturn(11, "mail_failed")
              /\ Charge(1)
              /\ faults' = faults \cup {<<0, "report", "mail">>}
              /\ UNCHANGED <<rec_file, ent_states, accum, files, backend,
                             idx, entits, sess, success,
                             start_states, prev_failure, invoked, reports,
                             handled>>
         ELSE /\ pc' = "cleanup"
              /\ UNCHANGED <<rec_file, ent_states, accum, files, backend,
                             idx, entits, deviations, sess, success, exit_code,
                             start_states, prev_failure, invoked, reports,
                             handled, faults, abort_cause>>

\* the clearing cycle is over: what the backend did belongs to items that
\* are no longer open
NewCycle == [posts |-> [e \in Entities |-> [c \in Currencies |-> 0]],
             handed |-> {}, closed |-> {}, notified |-> {}]

\* app.py 132-140: disconnect, clean_temp, reset_recovery, return 0
main_success ==
    /\ pc = "cleanup"
    /\ IF sess = "None"
       THEN /\ Uncaught("no_session")
            /\ UNCHANGED <<rec_file, ent_states, files, backend>>
       ELSE /\ files' = clean_temp(files)
            /\ ent_states' = reset.states
            /\ rec_file' = reset.file
            /\ backend' = NewCycle
            /\ Return(0, "none")
    /\ UNCHANGED <<accum, idx, entits, deviations, sess, success, start_states,
                   prev_failure, invoked, reports, handled, faults>>

----
\* ---------------- the system ----------------

Init ==
    /\ rec_file = [exists |-> FALSE, doc |-> EmptyMap]
    /\ ent_states = [isNone |-> TRUE, map |-> EmptyMap]
    /\ accum = EmptyAccum
    /\ files = [k \in FileKeys |-> EmptyMap]
    /\ backend = NewCycle
    /\ pc = "idle"
    /\ idx = 0
    /\ entits = <<>>
    /\ deviations = 0
    /\ sess = "unset"
    /\ success = FALSE
    /\ exit_code = 0
    /\ start_states = EmptyMap
    /\ prev_failure = FALSE
    /\ invoked = {}
    /\ handled = {}
    /\ faults = {}
    /\ reports = EmptyMap
    /\ abort_cause = "none"

Next ==
    \/ main_config_fail
    \/ main_no_entity
    \/ main_start
    \/ kill
    \/ initialize_recovery
    \/ initialize_recovery_fail
    \/ connect_to_sap
    \/ export_fbl5n_data
    \/ export_fbl5n_data_return
    \/ load_fbl5n_data
    \/ load_fbl5n_data_return
    \/ export_dms_data_start
    \/ export_dms_data
    \/ export_dms_data_return
    \/ load_dms_data
    \/ load_dms_data_return
    \/ consolidate_data
    \/ consolidate_data_return
    \/ generate_clearing_input
    \/ generate_clearing_input_return
    \/ clear_open_items_start
    \/ clear_open_items
    \/ clear_open_items_return
    \/ close_disputes_start
    \/ close_disputes
    \/ close_disputes_return
    \/ close_notifications_start
    \/ close_notifications
    \/ close_notifications_return
    \/ report_output
    \/ report_output_return
    \/ main_success

Spec == Init /\ [][Next]_vars

----
\* ---------------- properties ----------------

EntitySet == {entits[i] : i \in DOMAIN entits}

RunOver == pc \in {"exited", "uncaught"}

\* the checkpoint that gates an operation of a stage
CheckpointOf(op) ==
    CASE op \in {"fbl5n_export", "fbl5n_export_retry"} -> "fbl5n_data_exported"
      [] op = "fbl5n_convert" -> "fbl5n_data_converted"
      [] op = "dms_export" -> "dms_data_exported"
      [] op = "dms_convert" -> "dms_data_converted"
      [] op = "consolidate" -> "data_consolidated"
      [] op = "evaluate" -> "data_analyzed"
      [] op = "create_clearing_input" -> "f30_input_generated"
      [] op \in {"f30_load", "f30_post"} -> "f30_items_cleared"
      [] op = "dms_close" -> "dms_cases_processed"
      [] op \in {"qm_search", "qm_complete"} -> "qm_notifications_processed"

\* C1: checkpoint replay. An operation of a stage is never invoked for an
\* entity whose checkpoint of that stage was true in the state loaded at run
\* start; and an entity that started with the ledger exported but not
\* converted and got through the conversion stage had the conversion
\* invoked and the export not.
C1_CheckpointReplay ==
    /\ \A x \in invoked :
         x[1] \in DOMAIN start_states => ~start_states[x[1]][CheckpointOf(x[2])]
    /\ \A e \in DOMAIN start_states :
         (/\ start_states[e]["fbl5n_data_exported"]
          /\ ~start_states[e]["fbl5n_data_converted"]
          /\ <<e, "load_fbl5n">> \in handled)
         => /\ <<e, "fbl5n_convert">> \in invoked
            /\ <<e, "fbl5n_export">> \notin invoked

C1_Witness ==
    \E e \in DOMAIN start_states :
        /\ prev_failure
        /\ start_states[e]["fbl5n_data_exported"]
        /\ ~start_states[e]["fbl5n_data_converted"]
        /\ <<e, "load_fbl5n">> \in handled
        /\ <<e, "fbl5n_convert">> \in invoked
        /\ pc = "export_dms"

\* faults of the ledger export other than 'no data'
ExportFaults == {"abap", "connlost", "error"}

\* C2 (as stated): 'fbl5n_data_exported' is true for an entity only if no
\* ledger export call of the run for that entity raised a backend fault.
C2_ExportedOnlyOnSuccess ==
    \A e \in DOMAIN ent_states.map :
        (\E k \in ExportFaults : <<e, "fbl5n_export", k>> \in faults)
        => ~ent_states.map[e]["fbl5n_data_exported"]

\* the checkpoints in stage order
Chain ==
    <<"fbl5n_data_exported", "fbl5n_data_converted", "dms_data_exported",
      "dms_data_converted", "data_consolidated", "data_analyzed",
      "f30_input_generated", "f30_items_cleared", "dms_cases_processed",
      "qm_notifications_processed">>

Ordered(st) ==
    \A i, j \in 1..Len(Chain) : (i < j /\ st[Chain[j]]) => st[Chain[i]]

\* C3: stage order. In memory and in the persisted document, a later
\* checkpoint of an entity is true only if every earlier one is true.
C3_StageOrder ==
    /\ \A e \in DOMAIN ent_states.map : Ordered(ent_states.map[e])
    /\ \A e \in DOMAIN rec_file.doc : Ordered(rec_file.doc[e])

C3_Witness ==
    \E e \in DOMAIN rec_file.doc :
        /\ prev_failure
        /\ rec_file.doc[e]["qm_notifications_processed"]
        /\ pc = "report"

FailureCodes == 4..11

\* C4: the checkpoint store is emptied only by the step that ends a run
\* with exit code 0 after reporting, and that step empties it; a run that
\* ends with one of the codes 4..11 leaves a non-empty document, from which
\* the next initialize reports a prior failure and loads the checkpoints.
C4_StoreLifecycle ==
    /\ [][(rec_file.doc # EmptyMap /\ rec_file'.doc = EmptyMap)
            => (pc = "cleanup" /\ pc' = "exited" /\ exit_code' = 0)]_vars
    /\ []((pc = "exited" /\ exit_code = 0 /\ abort_cause = "none")
            => rec_file.doc = EmptyMap)
    /\ []((pc = "exited" /\ exit_code \in FailureCodes)
            => /\ rec_file.exists
               /\ rec_file.doc # EmptyMap
               /\ \A es \in EntityLists :
                    /\ initialize(rec_file, es).prev
                    /\ initialize(rec_file, es).states = rec_file.doc)

C4_Witness ==
    /\ pc = "exited"
    /\ exit_code \in FailureCodes
    /\ prev_failure
    /\ \E e \in DOMAIN rec_file.doc : rec_file.doc[e]["fbl5n_data_converted"]

\* C5: initialize. From an absent or empty document every listed entity
\* gets an entry with all checkpoints false, that map is persisted and the
\* result is False; a non-empty document becomes the in-memory state
\* unchanged and the result is True.
C5_Initialize ==
    [][(pc = "init" /\ pc' = "connect")
         => IF ~rec_file.exists \/ rec_file.doc = EmptyMap
            THEN /\ DOMAIN ent_states'.map = EntitySet
                 /\ \A e \in EntitySet : \A k \in StateKeys :
                        ~ent_states'.map[e][k]
                 /\ ~ent_states'.isNone
                 /\ rec_file' = [exists |-> TRUE, doc |-> ent_states'.map]
                 /\ ~prev_failure'
            ELSE /\ ent_states' = [isNone |-> FALSE, map |-> rec_file.doc]
                 /\ rec_file' = rec_file
                 /\ prev_failure']_vars

C5_Witness ==
    /\ pc = "connect"
    /\ prev_failure
    /\ ent_states.map = rec_file.doc
    /\ \E e \in DOMAIN ent_states.map : ent_states.map[e]["data_consolidated"]
    /\ EntitySet # DOMAIN ent_states.map

\* failures the pipeline meets while it works on one entity
EntityLevel ==
    {<<"fbl5n_convert", "parse">>, <<"dms_convert", "parse">>,
     <<"generate", "noroot">>, <<"fbl5n_export", "abap">>,
     <<"fbl5n_export", "connlost">>, <<"fbl5n_export", "error">>,
     <<"dms_export", "notfound">>, <<"clear", "selectfail">>,
     <<"close_disputes", "notfound">>}

FailedEntities == {f[1] : f \in {g \in faults : <<g[2], g[3]>> \in EntityLevel}}

Untroubled(e) == \A f \in faults : f[1] # e

\* C6 (as stated): when a fresh run is over and a stage failed for one
\* entity with an entity-level failure, every sibling entity that met no
\* failure of its own got through all stages up to its report.
C6_EntityIsolation ==
    (RunOver /\ ~prev_failure /\ sess = "ok")
    => \A e \in FailedEntities : \A e2 \in EntitySet \ {e} :
           Untroubled(e2) => <<e2, "report">> \in handled

\* C7 (as stated): after a failed login no stage operation is invoked for
\* any entity and the run ends with exit code 2.
C7_LoginFailureEndsRun ==
    sess = "None"
    => /\ invoked = {}
       /\ handled = {}
       /\ RunOver => (pc = "exited" /\ exit_code = 2)

NoData(e) == <<e, "fbl5n_export", "nodata">> \in faults

\* C8 (amended): an entity whose ledger export reports no open items keeps
\* 'fbl5n_data_exported' false, the export stage goes on with the next
\* entity, and load_fbl5n_data records the absence as a null 'fbl5n_data'
\* entry; an entity whose ledger items carry no case identifier gets
\* 'fbl5n_data_no_case' true, its case export is not invoked,
\* 'dms_data_exported' stays false and consolidate_data records a null
\* 'consolidated_data' entry.
C8_AbsenceRecorded ==
    \A e \in DOMAIN ent_states.map :
        /\ NoData(e)
           => /\ ~ent_states.map[e]["fbl5n_data_exported"]
              /\ e \in DOMAIN rec_file.doc
              /\ ~rec_file.doc[e]["fbl5n_data_exported"]
              /\ <<e, "export_fbl5n">> \in handled
              /\ <<e, "load_fbl5n">> \in handled
                 => get_from_accum(accum, e, "fbl5n_data") = None
        /\ ent_states.map[e]["fbl5n_data_no_case"]
           => /\ ~ent_states.map[e]["dms_data_exported"]
              /\ <<e, "dms_export">> \notin invoked
              /\ <<e, "consolidate">> \in handled
                 => get_from_accum(accum, e, "consolidated_data") = None

C8_Witness ==
    \E e \in DOMAIN ent_states.map : \E e2 \in DOMAIN ent_states.map :
        /\ NoData(e)
        /\ <<e, "load_fbl5n">> \in handled
        /\ get_from_accum(accum, e, "fbl5n_data") = None
        /\ ent_states.map[e2]["fbl5n_data_no_case"]
        /\ <<e2, "consolidate">> \in handled
        /\ get_from_accum(accum, e2, "consolidated_data") = None

\* C8 (as stated): the checkpoint of the stage that found no applicable
\* work is true once the stage has handled the entity.
C8_CheckpointAdvanced ==
    \A e \in DOMAIN ent_states.map :
        /\ (NoData(e) /\ <<e, "export_fbl5n">> \in handled)
           => ent_states.map[e]["fbl5n_data_exported"]
        /\ (ent_states.map[e]["fbl5n_data_no_case"]
            /\ <<e, "export_dms">> \in handled)
           => ent_states.map[e]["dms_data_exported"]

Reported == \A e \in EntitySet : <<e, "report">> \in handled

\* C9 (as stated): a fresh run in which the only thing that went wrong is
\* that ledger exports found no open items reaches reporting for every
\* entity and ends with exit code 0.
C9_NoDataRunCompletes ==
    (/\ RunOver /\ ~prev_failure /\ sess = "ok"
     /\ faults # {}
     /\ \A f \in faults : f[3] = "nodata")
    => (pc = "exited" /\ exit_code = 0 /\ Reported)

\* C10 (as stated): a fresh run in which the only thing that went wrong is
\* that consolidate returned null for entities is not aborted: it reaches
\* reporting for every entity, and the checkpoint 'data_consolidated' of
\* those entities stays false.
C10_ConsolidateNullRunCompletes ==
    (/\ RunOver /\ ~prev_failure /\ sess = "ok"
     /\ faults # {}
     /\ \A f \in faults : f[3] = "cust_missing")
    => /\ pc = "exited" /\ Reported
       /\ \A f \in faults : f[1] \in DOMAIN ent_states.map
            => ~ent_states.map[f[1]]["data_consolidated"]

ConnLost(e) == <<e, "fbl5n_export", "connlost">> \in faults

\* C11 (as stated): after a connection-lost fault of the ledger export the
\* export is invoked once more with the parameters of the first call, so
\* that the re-attempt gets as far as the first call did.
C11_RetrySameExport ==
    \A e \in Entities :
        ConnLost(e)
        => /\ <<e, "fbl5n_export_retry">> \in invoked
           /\ RetryArgs = ExportArgs
           /\ fbl5n_export_entry(RetryArgs) = fbl5n_export_entry(ExportArgs)

\* the assertion failures of create_clearing_input recorded for this run
InstructionFaults ==
    {f \in faults : f[2] = "generate" /\ f[3] \in {"noroot", "costcenter"}}

\* C24: when the building of the instruction document of an entity fails on
\* the root cause or on differing cost centers, the run has ended with the
\* exception, and no account was loaded and nothing posted for any entity
\* by that run.
C24_ViolationHaltsRun ==
    InstructionFaults # {}
    => /\ pc = "uncaught"
       /\ \A e \in Entities :
            /\ <<e, "f30_load">> \notin invoked
            /\ <<e, "f30_post">> \notin invoked

C24_Witness ==
    /\ <<2, "generate", "costcenter">> \in faults
    /\ <<1, "create_clearing_input">> \in invoked
    /\ rec_file.doc[1]["f30_input_generated"]
    /\ ~rec_file.doc[2]["f30_input_generated"]
    /\ pc = "uncaught"

\* posting was attempted for the entity by this run and failed for every
\* bucket of its document
PostingFailed(e) ==
    /\ <<e, "f30_load">> \in invoked
    /\ InAccum(accum, e, "clearing_output")
    /\ LET clr_output == get_from_accum(accum, e, "clearing_output")
       IN  /\ clr_output # None
           /\ \A c \in DOMAIN clr_output :
                /\ ~clr_output[c].Cleared
                /\ clr_output[c].F30_Clearing_Status
                   \in {PostStatus("loadfail"), PostStatus("postfail")}

\* C25: the cleared-items part of the report of an entity whose posting
\* failed for every bucket holds the buckets with their error status, not
\* the statement that no items to clear were found.
C25_ReportReflectsPosting ==
    \A e \in DOMAIN reports :
        PostingFailed(e)
        => /\ reports[e].cleared.tag = "cleared"
           /\ LET clr_output == get_from_accum(accum, e, "clearing_output")
              IN  \A c \in DOMAIN clr_output :
                      reports[e].cleared.data[c].F30_Clearing_Status
                      = clr_output[c].F30_Clearing_Status

\* C28: over all runs of a clearing cycle, crashed and resumed ones
\* included, f30.post_items succeeds at most once for each entity and
\* currency bucket.
C28_PostedAtMostOnce ==
    \A e \in Entities : \A c \in Currencies : backend.posts[e][c] <= 1

\* the dump files a resumed run reads back when the checkpoint is true
\* (biaCore 523, 656, 707, 791-792, 819, 883, 995, 1107)
OutputFiles(key) ==
    CASE key = "fbl5n_data_converted" -> {"fbl5n_binary"}
      [] key = "dms_data_converted" -> {"dms_binary"}
      [] key = "data_consolidated" -> {"consolidated"}
      [] key = "data_analyzed" -> {"analyzed", "matched"}
      [] key = "f30_input_generated" -> {"clearing_input"}
      [] key = "f30_items_cleared" -> {"clearing_output"}
      [] key = "dms_cases_processed" -> {"dms_closing_output"}
      [] key = "qm_notifications_processed" -> {"qm_closing_output"}
      [] OTHER -> {}

\* C29: whenever a stage checkpoint is true in the persisted document, the
\* files the stage wrote for a resumed run to read back exist.
C29_OutputBeforeCheckpoint ==
    \A e \in DOMAIN rec_file.doc : \A key \in StateKeys :
        rec_file.doc[e][key]
        => \A f \in OutputFiles(key) : FileExists(files, e, f)

\* the stages up to the instruction document write their files first
\* (biaCore 531-532, 651-652, 730-732, 806-808, 827-829)
EarlyStagesWrittenFirst ==
    \A e \in DOMAIN rec_file.doc :
        \A key \in StateKeys \ {"f30_items_cleared", "dms_cases_processed",
                                 "qm_notifications_processed"} :
            rec_file.doc[e][key]
            => \A f \in OutputFiles(key) : FileExists(files, e, f)

----
\* ---------------- store_to_accum on its own ----------------
\* The accumulator is driven by arbitrary calls of store_to_accum; invoked
\* holds the parameters of the last call, abort_cause how it ended.

AccumCallKeys == {"fbl5n_data", "clearing_input"}

AccumCallData == {None, [tag |-> "d1"], [tag |-> "d2"]}

AccumInit ==
    /\ Init
    /\ pc = "idle"

store_to_accum_call ==
    /\ \E e \in Entities, key \in AccumCallKeys, data \in AccumCallData,
          force \in BOOLEAN :
         LET r == Store(Cur, e, key, data, force)
         IN  /\ accum' = r.accum
             /\ abort_cause' = r.cause
             /\ invoked' = [ent |-> e, key |-> key, data |-> data,
                            force |-> force]
    /\ UNCHANGED <<rec_file, ent_states, files, backend, pc, idx, entits,
                   deviations, sess, success, exit_code, start_states,
                   prev_failure, handled, faults, reports>>

AccumNext == store_to_accum_call

AccumSpec == AccumInit /\ [][AccumNext]_vars

\* C12: write-once accumulator. A store on an existing entry without force
\* fails the assertion and changes nothing; any other store (a first store,
\* also of None, or a forced one) succeeds, sets the entry to the stored
\* value and leaves every other entry as it was.
C12_WriteOnce ==
    [][LET c == invoked'
       IN  IF InAccum(accum, c.ent, c.key) /\ ~c.force
           THEN abort_cause' = "accum_assert" /\ accum' = accum
           ELSE /\ abort_cause' = "none"
                /\ InAccum(accum', c.ent, c.key)
                /\ get_from_accum(accum', c.ent, c.key) = c.data
                /\ \A k \in AccumKeys :
                     /\ DOMAIN accum'[k]
                          = DOMAIN accum[k]
                            \cup (IF k = c.key THEN {c.ent} ELSE {})
                     /\ \A e \in DOMAIN accum[k] :
                          (k # c.key \/ e # c.ent) => accum'[k][e] = accum[k][e]
      ]_vars

C12_Witness ==
    /\ abort_cause = "accum_assert"
    /\ get_from_accum(accum, invoked.ent, invoked.key) = None
    /\ invoked.data # None
    /\ \E e \in Entities : \E k \in AccumCallKeys :
         InAccum(accum, e, k) /\ get_from_accum(accum, e, k) = [tag |-> "d2"]

----
\* ---------------- evaluate_items / get_matched_items row by row ----------------
\* (biaProcessor 673-792).  A data set is a sequence of rows; DC_Amount and
\* the thresholds are the values the frame holds, counted in hundredths of
\* the currency unit.

NULL_TAX == ""

INVALID_THRESHOLD == -1

allowed_tax_codes == {"YR", "YN", "TT", "TZ", "YO", "C3", "IG", "K6", "AU", "UU"}

MaxRows == 3

\* pd.NA in the ID column: no case number (case numbers are positive)
NA == 0

RealIds == {1, 2}

TaxCodes == {NULL_TAX, "YR", "A1"}

Amounts == {-1, 1, 3}

BaseThresholds == {0, 2}

TaxThresholds == {EmptyMap, "YR" :> 3}

\* a ledger item as _parse_fbl5n_data leaves it: the three flags are False
NewRow(i, id, curr, tax, amount) ==
    [Index |-> i, ID |-> id, Currency |-> curr, Tax |-> tax, DC_Amount |-> amount,
     ID_Match |-> FALSE, Tax_Match |-> FALSE, Amount_Match |-> FALSE]

\* _order_data(checked, ["ID"]): the ID column of n consolidated rows, in
\* descending order, the rows without an identifier last
IdColumns(n) ==
    {ids \in [1..n -> RealIds \cup {NA}] :
        \A i \in 1..n : \A j \in 1..n : i < j => ids[i] >= ids[j]}

\* the consolidated rows of an ID column and the other columns
Consolidated(ids, cols) ==
    [i \in DOMAIN ids |-> NewRow(i, ids[i], cols[i][1], cols[i][2], cols[i][3])]

Abs(x) == IF x < 0 THEN -x ELSE x

\* id_values = data.loc[data["ID"].notna(), "ID"]
id_values(data) == {i \in DOMAIN data : data[i].ID # NA}

\* id_values.duplicated(): the first row of an identifier is not marked
duplicated_keep_first(data) ==
    {i \in id_values(data) :
        \E j \in id_values(data) : j < i /\ data[j].ID = data[i].ID}

\* id_values.duplicated(keep = False)
duplicated(data) ==
    {i \in id_values(data) :
        \E j \in id_values(data) : j # i /\ data[j].ID = data[i].ID}

\* id_recs = data[data["ID"] == id_num]
id_recs(data, id_num) == {i \in DOMAIN data : data[i].ID = id_num}

\* id_recs["Tax"].unique()
id_taxes(data, id_num) == {data[i].Tax : i \in id_recs(data, id_num)}

RECURSIVE dc_amnts_sum(_, _)
dc_amnts_sum(data, S) ==
    IF S = {} THEN 0
    ELSE LET i == CHOOSE x \in S : TRUE
         IN  data[i].DC_Amount + dc_amnts_sum(data, S \ {i})

\* biaProcessor 761-775: the tax code that selects the threshold
group_tax_code(taxes) ==
    IF Cardinality(taxes) = 1 THEN CHOOSE t \in taxes : TRUE
    ELSE IF Cardinality(taxes) = 2 /\ NULL_TAX \in taxes
    THEN CHOOSE t \in taxes : t # NULL_TAX
    ELSE ""

\* biaProcessor 764-775: when Tax_Match is set
taxes_compatible(taxes) ==
    \/ Cardinality(taxes) = 1
    \/ /\ Cardinality(taxes) = 2
       /\ NULL_TAX \in taxes
       /\ group_tax_code(taxes) \in allowed_tax_codes

\* biaProcessor 729-733: base_thresh += 0.01 when it is 0
base_thresh_raw(rules) == rules.base_threshold
base_thresh(rules) ==
    IF rules.base_threshold = 0 THEN rules.base_threshold + 1
    ELSE rules.base_threshold

\* biaProcessor 777-780
thresh(rules, tax_code) ==
    IF tax_code \in DOMAIN rules.tax_thresholds
    THEN rules.tax_thresholds[tax_code]
    ELSE base_thresh(rules)

\* biaProcessor 787-790, with the variant that leaves the test of the signs out
amounts_match_unsigned(data, S, th) == Abs(dc_amnts_sum(data, S)) < th
amounts_match(data, S, th) ==
    /\ Abs(dc_amnts_sum(data, S)) < th
    /\ \E i \in S : data[i].DC_Amount > 0
    /\ \E i \in S : data[i].DC_Amount < 0

\* data.loc[..., flag] = True with the toggling variant before it
SetToggle(old, cond) == old # cond
SetTrue(old, cond) == old \/ cond

EvaluateItems(data, rules) ==
    LET dup == duplicated(data)
        \* id_values[duplicated].unique()
        dup_ids == {data[j].ID : j \in dup}
        code(i) == group_tax_code(id_taxes(data, data[i].ID))
    IN  IF dup = {} THEN data
        ELSE IF \E i \in dup : thresh(rules, code(i)) = INVALID_THRESHOLD
        THEN "AssertionError"
        ELSE [i \in DOMAIN data |->
                 LET S == id_recs(data, data[i].ID)
                 IN  [data[i] EXCEPT
                        !.ID_Match = SetTrue(@, i \in dup),
                        !.Tax_Match =
                            SetTrue(@, data[i].ID \in dup_ids
                                       /\ taxes_compatible(id_taxes(data, data[i].ID))),
                        !.Amount_Match =
                            SetTrue(@, data[i].ID \in dup_ids
                                       /\ amounts_match(data, S,
                                                        thresh(rules, code(i))))]]

AllMatch(row) == row.ID_Match /\ row.Tax_Match /\ row.Amount_Match

GetMatchedItems(data) == SelectSeq(data, AllMatch)

\* the evaluation of one entity's consolidated data (biaCore 796-808), the
\* accumulator holding the data sets and the call record the tax rules
EvalEntity == CHOOSE e \in Entities : TRUE

Idle ==
    /\ rec_file = [exists |-> FALSE, doc |-> EmptyMap]
    /\ ent_states = [isNone |-> TRUE, map |-> EmptyMap]
    /\ files = [k \in FileKeys |-> EmptyMap]
    /\ backend = NewCycle
    /\ idx = 0
    /\ entits = <<>>
    /\ deviations = 0
    /\ sess = "unset"
    /\ success = FALSE
    /\ exit_code = 0
    /\ start_states = EmptyMap
    /\ prev_failure = FALSE
    /\ handled = {}
    /\ faults = {}
    /\ reports = EmptyMap
    /\ abort_cause = "none"

IdleUnchanged ==
    UNCHANGED <<rec_file, ent_states, files, backend, idx, entits, deviations, sess,
                success, exit_code, start_states, prev_failure, handled, faults,
                reports, abort_cause>>

EvalStart(taxes, currs) ==
    /\ Idle
    /\ pc = "consolidated"
    /\ \E n \in 0..MaxRows :
         \E ids \in IdColumns(n), cols \in [1..n -> currs \X taxes \X Amounts] :
             accum = store_to_accum(EmptyAccum, EvalEntity, "consolidated_data",
                                    Consolidated(ids, cols))
    /\ \E b \in BaseThresholds, t \in TaxThresholds :
         invoked = [base_threshold |-> b, tax_thresholds |-> t]

Consolid == get_from_accum(accum, EvalEntity, "consolidated_data")
Analyzed == get_from_accum(accum, EvalEntity, "analyzed_data")
Matched == get_from_accum(accum, EvalEntity, "matched_data")

evaluate_items_call ==
    /\ pc = "consolidated"
    /\ accum' = store_to_accum(accum, EvalEntity, "analyzed_data",
                    EvaluateItems(Consolid, invoked))
    /\ pc' = "analyzed"
    /\ UNCHANGED invoked
    /\ IdleUnchanged

get_matched_items_call ==
    /\ pc = "analyzed"
    /\ accum' = store_to_accum(accum, EvalEntity, "matched_data", GetMatchedItems(Analyzed))
    /\ pc' = "matched"
    /\ UNCHANGED invoked
    /\ IdleUnchanged

evaluate_items_again ==
    /\ pc = "matched"
    /\ accum' = store_to_accum(accum, EvalEntity, "analyzed_data",
                    EvaluateItems(Analyzed, invoked))
    /\ pc' = "reanalyzed"
    /\ UNCHANGED invoked
    /\ IdleUnchanged

EvalNext ==
    \/ evaluate_items_call
    \/ get_matched_items_call
    \/ evaluate_items_again

EvalInit == EvalStart(TaxCodes, {"EUR"})

EvalSpec == EvalInit /\ [][EvalNext]_vars

\* the same evaluation over items of two currencies
CurrInit == EvalStart({"YR"}, {"EUR", "USD"})

CurrSpec == CurrInit /\ [][EvalNext]_vars

\* the rows of the consolidated data that share row i's identifier
Group(i) == id_recs(Consolid, Consolid[i].ID)

GroupTaxes(i) == {Consolid[j].Tax : j \in Group(i)}

BothSigns(data, S) ==
    /\ \E j \in S : data[j].DC_Amount > 0
    /\ \E j \in S : data[j].DC_Amount < 0

\* row i of the consolidated data is among the rows returned
Returned(i) == \E k \in DOMAIN Matched : Matched[k].Index = i

\* the tax codes are all identical, or two of which one is empty and the
\* other on the allow-list
TaxesAgree(taxes) ==
    \/ Cardinality(taxes) = 1
    \/ /\ Cardinality(taxes) = 2
       /\ NULL_TAX \in taxes
       /\ taxes \ {NULL_TAX} \subseteq allowed_tax_codes

\* the threshold of a group: the entry of its non-null tax code, else the
\* base threshold with 0 read as one hundredth
Resolved(taxes) ==
    LET nn == taxes \ {NULL_TAX}
        code == IF Cardinality(nn) = 1 THEN CHOOSE t \in nn : TRUE ELSE NULL_TAX
    IN  IF code \in DOMAIN invoked.tax_thresholds THEN invoked.tax_thresholds[code]
        ELSE IF invoked.base_threshold = 0 THEN 1
        ELSE invoked.base_threshold

C14_OneCurrency ==
    pc = "matched"
    => \A k \in DOMAIN Matched :
           LET S == {j \in DOMAIN Matched :
                        /\ Matched[j].ID = Matched[k].ID
                        /\ Matched[j].Currency = Matched[k].Currency}
           IN  /\ Cardinality(S) >= 2
               /\ BothSigns(Matched, S)
               /\ Abs(dc_amnts_sum(Matched, S)) < Resolved({Matched[j].Tax : j \in S})

\* C15: evaluating an evaluated set again and filtering gives the rows the
\* first evaluation and filtering gave.
C15_Idempotent ==
    pc = "reanalyzed" => GetMatchedItems(Analyzed) = Matched

C15_Witness ==
    /\ pc = "reanalyzed"
    /\ Matched # <<>>
    /\ Len(Matched) < Len(Consolid)
    /\ \E i \in DOMAIN Analyzed : Analyzed[i].ID = NA /\ ~AllMatch(Analyzed[i])

\* C16: for a group with agreeing tax codes and amounts of both signs, the
\* amount flag is set exactly when the absolute sum is below the entry of
\* tax_thresholds for the group's non-null tax code, or below the base
\* threshold where there is no entry, a base threshold of 0 counting as 0.01:
\* then a sum of 0.00 is flagged and a sum of 0.02 is not.
C16_Threshold ==
    pc = "analyzed"
    => \A i \in duplicated(Consolid) :
           LET s == Abs(dc_amnts_sum(Consolid, Group(i)))
               t == Resolved(GroupTaxes(i))
           IN  (TaxesAgree(GroupTaxes(i)) /\ BothSigns(Consolid, Group(i)))
               => /\ Analyzed[i].Amount_Match <=> s < t
                  /\ (invoked.base_threshold = 0
                      /\ GroupTaxes(i) \cap DOMAIN invoked.tax_thresholds = {})
                     => /\ s = 0 => Analyzed[i].Amount_Match
                        /\ s = 2 => ~Analyzed[i].Amount_Match

C16_Witness ==
    /\ pc = "analyzed"
    /\ invoked.base_threshold = 0
    /\ invoked.tax_thresholds # EmptyMap
    /\ \E i \in duplicated(Consolid) :
         /\ GroupTaxes(i) = {NULL_TAX, "YR"}
         /\ BothSigns(Consolid, Group(i))
         /\ dc_amnts_sum(Consolid, Group(i)) = 2
         /\ Analyzed[i].Amount_Match
    /\ \E i \in DOMAIN Consolid : Consolid[i].ID = NA

----
\* ---------------- case numbers, virtual IDs (biaProcessor 200-228, 408-412,
\* 553-585, 657-671) ----------------
\* An item text is a sequence of tokens, each a prefix followed by a number:
\* "D" is the case marker as written, "d" the marker in lower case, "X" any
\* other word.

VirtualBase == 10000000

MaxItems == 3

Tok(prefix, case) == [prefix |-> prefix, case |-> case]

Texts ==
    {<<Tok("X", 1)>>,
     <<Tok("D", 1)>>,
     <<Tok("D", 2)>>,
     <<Tok("D", 1), Tok("D", 2)>>,
     <<Tok("D", 2), Tok("D", 3)>>,
     <<Tok("d", 1), Tok("d", 2)>>,
     <<Tok("D", VirtualBase)>>}

\* rx_patt matched with re.I (the Series branch) and without (the str branch)
MarkerAnyCase(tok) == tok.prefix \in {"D", "d"}

MarkerAsWritten(tok) == tok.prefix = "D"

\* _get_cases on a Series: source.str.findall(rx_patt, re.I), per item
get_cases_series(text) == SelectSeq(text, MarkerAnyCase)

\* _get_cases on a str: [int(m[1]) for m in re.findall(rx_patt, source)]
get_cases_str(text) ==
    LET found == SelectSeq(text, MarkerAsWritten)
    IN  [k \in DOMAIN found |-> found[k].case]

\* biaProcessor 408-411: no match gives NA, else the first match's number
parsed_id(text) ==
    LET found == get_cases_series(text)
    IN  IF Len(found) = 0 THEN NA ELSE found[1].case

\* _parse_fbl5n_data: the columns the case numbers bear on
parse_fbl5n_data(texts) ==
    [i \in DOMAIN texts |->
        [Index |-> i, Text |-> texts[i], ID |-> parsed_id(texts[i]), Virtual_ID |-> NA]]

\* data.index[case_IDs.str.len() > 1]
multi_id_recs(data) == {i \in DOMAIN data : Len(get_cases_series(data[i].Text)) > 1}

\* one pass of the loop of _virtualize (biaProcessor 577-583)
virtualize_item(data, virtual, item, virt_id) ==
    LET case_IDs == get_cases_str(data[item].Text)
        refd == {case_IDs[k] : k \in DOMAIN case_IDs}
    IN  [i \in DOMAIN virtual |->
            IF i = item \/ virtual[i].ID \in refd
            THEN [virtual[i] EXCEPT !.Virtual_ID = virt_id]
            ELSE virtual[i]]

\* the loop over multi_id_recs from item on, next_id the generator's next
\* value; allocated collects the values drawn
RECURSIVE virtualize_from(_, _, _, _, _)
virtualize_from(data, virtual, item, next_id, allocated) ==
    IF item > Len(data) THEN [data |-> virtual, allocated |-> allocated]
    ELSE IF item \in multi_id_recs(data)
    THEN virtualize_from(data, virtualize_item(data, virtual, item, next_id),
                         item + 1, next_id + 1, Append(allocated, next_id))
    ELSE virtualize_from(data, virtual, item + 1, next_id, allocated)

\* _virtualize(data, case_id_rx, base)
virtualize(data, base) == virtualize_from(data, data, 1, base, <<>>)

\* the virtual ID written to ID, the Virtual_ID column left as it is
apply_virtual_ids_copy(data) ==
    [i \in DOMAIN data |->
        IF data[i].Virtual_ID # NA
        THEN [data[i] EXCEPT !.ID = data[i].Virtual_ID]
        ELSE data[i]]

\* biaProcessor 661-666: swap ID and Virtual_ID where a virtual ID was given
apply_virtual_ids(data) ==
    IF \E i \in DOMAIN data : data[i].Virtual_ID # NA
    THEN [i \in DOMAIN data |->
             IF data[i].Virtual_ID # NA
             THEN [data[i] EXCEPT !.ID = data[i].Virtual_ID,
                                  !.Virtual_ID = data[i].ID]
             ELSE data[i]]
    ELSE data

\* _order_data(data, ["ID"]): descending, equal identifiers in the order met
RECURSIVE order_data(_)
order_data(data) ==
    IF data = <<>> THEN <<>>
    ELSE LET rest == order_data(Tail(data))
             before == SelectSeq(rest, LAMBDA r : r.ID > Head(data).ID)
             after == SelectSeq(rest, LAMBDA r : r.ID <= Head(data).ID)
         IN  before \o <<Head(data)>> \o after

\* consolidate on the ledger rows: virtual IDs, the swap, the ordering
consolidate_rows(fbl5n) ==
    LET v == virtualize(fbl5n, VirtualBase)
    IN  [data |-> order_data(apply_virtual_ids(v.data)), allocated |-> v.allocated]

\* the ledger export of one entity, parsed and then consolidated
ConsStart ==
    /\ Idle
    /\ pc = "exported"
    /\ accum = EmptyAccum
    /\ \E n \in 1..MaxItems : \E texts \in [1..n -> Texts] :
         invoked = [texts |-> texts, allocated |-> <<>>]

preprocess_fbl5n_call ==
    /\ pc = "exported"
    /\ accum' = store_to_accum(accum, EvalEntity, "fbl5n_data",
                               parse_fbl5n_data(invoked.texts))
    /\ pc' = "parsed"
    /\ UNCHANGED invoked
    /\ IdleUnchanged

consolidate_call ==
    /\ pc = "parsed"
    /\ LET c == consolidate_rows(get_from_accum(accum, EvalEntity, "fbl5n_data"))
       IN  /\ accum' = store_to_accum(accum, EvalEntity, "consolidated_data", c.data)
           /\ invoked' = [invoked EXCEPT !.allocated = c.allocated]
    /\ pc' = "consolidated"
    /\ IdleUnchanged

\* Series.unique(): the values in the order they are first met
RECURSIVE unique(_)
unique(values) ==
    IF values = <<>> THEN <<>>
    ELSE <<Head(values)>>
         \o unique(SelectSeq(Tail(values), LAMBDA x : x # Head(values)))

\* biaProcessor 991, 998, 1025-1028: the member cases of the group id_num
case_IDs(curr_items, id_num) ==
    LET id_mask == SelectSeq(curr_items, LAMBDA r : r.ID = id_num)
        notna == SelectSeq(id_mask, LAMBDA r : r.Virtual_ID # NA)
        virt_IDs == unique([k \in DOMAIN notna |-> notna[k].Virtual_ID])
    IN  IF Len(virt_IDs) = 0 THEN <<id_num>> ELSE virt_IDs

\* the Case_IDs create_clearing_input gives the groups of items that can
\* match: those that share an identifier (biaProcessor 989-1028, 1065-1092)
group_case_ids_call ==
    /\ pc = "consolidated"
    /\ LET ids == {Consolid[i].ID : i \in duplicated(Consolid)}
       IN  accum' = store_to_accum(accum, EvalEntity, "clearing_input",
                        [id_num \in ids |-> case_IDs(Consolid, id_num)])
    /\ pc' = "grouped"
    /\ UNCHANGED invoked
    /\ IdleUnchanged

ConsNext ==
    \/ preprocess_fbl5n_call
    \/ consolidate_call
    \/ group_case_ids_call

ConsSpec == ConsStart /\ [][ConsNext]_vars

Fbl5n == get_from_accum(accum, EvalEntity, "fbl5n_data")

\* the consolidated row of ledger item i
RowOf(i) == CHOOSE r \in {Consolid[k] : k \in DOMAIN Consolid} : r.Index = i

\* the case numbers the markers of a text name
Referenced(text) ==
    {get_cases_series(text)[k].case : k \in DOMAIN get_cases_series(text)}

\* C17 (as stated): after consolidate, an item whose text carries two or more
\* case markers and every record whose identifier was one of the case numbers
\* the item names carry the same synthetic identifier in the ID field.
C17_Rekeyed ==
    pc = "consolidated"
    => \A i \in DOMAIN Fbl5n :
           Len(get_cases_series(invoked.texts[i])) >= 2
           => /\ RowOf(i).ID >= VirtualBase
              /\ \A j \in DOMAIN Fbl5n :
                     Fbl5n[j].ID \in Referenced(invoked.texts[i])
                     => RowOf(j).ID = RowOf(i).ID

\* C18 (as stated): the synthetic identifiers drawn in one consolidate call are
\* 10,000,000, 10,000,001, ... one per item with several case numbers, in item
\* order, pairwise distinct, and none is a case number of the data.
C18_SyntheticIds ==
    pc = "consolidated"
    => /\ Len(invoked.allocated) = Cardinality(multi_id_recs(Fbl5n))
       /\ \A k \in DOMAIN invoked.allocated : invoked.allocated[k] = VirtualBase + (k - 1)
       /\ \A k \in DOMAIN invoked.allocated :
              \A i \in DOMAIN Fbl5n :
                  /\ invoked.allocated[k] # Fbl5n[i].ID
                  /\ invoked.allocated[k] \notin Referenced(invoked.texts[i])

\* C19 (as stated): after parsing, an item with exactly one case marker has
\* that case number as its ID, an item with none has no ID, and an item with
\* two or more has no ID either.
C19_ParsedIds ==
    pc = "parsed"
    => \A i \in DOMAIN Fbl5n :
           LET found == get_cases_series(invoked.texts[i])
           IN  /\ Len(found) = 1 => Fbl5n[i].ID = found[1].case
               /\ Len(found) = 0 => Fbl5n[i].ID = NA
               /\ Len(found) >= 2 => Fbl5n[i].ID = NA

----
\* ---------------- _get_new_root_cause (biaProcessor 840-853, 1029-1032) ----------------

\* root causes a case can carry when the group is built
PrevRootCauses == {"L01", "L06", "L14", "L08", "L00"}

\* document types of ledger items
DocTypes == {"DG", "DZ", "DA", "DR"}

\* new_root_cause is returned without having been bound
Unbound == "UnboundLocalError"

\* the variant that looks at the document types first
get_new_root_cause_fresh(prev_rt_cause, doc_types) ==
    IF "DG" \in doc_types THEN "L06"
    ELSE IF "DZ" \in doc_types \/ "DA" \in doc_types THEN "L01"
    ELSE IF prev_rt_cause \in {"L06", "L01"} THEN prev_rt_cause
    ELSE Unbound
get_new_root_cause(prev_rt_cause, doc_types) ==
    IF prev_rt_cause \in {"L06", "L01"} THEN prev_rt_cause
    ELSE IF "DG" \in doc_types THEN "L06"
    ELSE IF "DZ" \in doc_types \/ "DA" \in doc_types THEN "L01"
    ELSE Unbound

\* one group of create_clearing_input: the root cause of its case and the
\* document types of its items
RootStart ==
    /\ Idle
    /\ pc = "matched"
    /\ accum = EmptyAccum
    /\ \E prev \in PrevRootCauses, types \in (SUBSET DocTypes) \ {{}} :
         invoked = [rt_cause |-> prev, doc_types |-> types,
                    new_root_cause |-> "", error |-> ""]

\* biaProcessor 1030
get_new_root_cause_call ==
    /\ pc = "matched"
    /\ LET new == get_new_root_cause(invoked.rt_cause, invoked.doc_types)
       IN  IF new = Unbound
           THEN invoked' = [invoked EXCEPT !.error = Unbound]
           ELSE invoked' = [invoked EXCEPT !.new_root_cause = new]
    /\ pc' = "resolved"
    /\ UNCHANGED accum
    /\ IdleUnchanged

\* biaProcessor 1031-1083: the assertion, then the record of the group
create_record ==
    /\ pc = "resolved"
    /\ IF invoked.error # ""
       THEN UNCHANGED <<accum, invoked>>
       ELSE IF invoked.new_root_cause \notin {"L01", "L06"}
       THEN /\ invoked' = [invoked EXCEPT !.error = "AssertionError"]
            /\ UNCHANGED accum
       ELSE /\ accum' = store_to_accum(accum, EvalEntity, "clearing_input",
                                       NewRecord(FALSE, <<"c1">>,
                                                 invoked.new_root_cause, "std"))
            /\ UNCHANGED invoked
    /\ pc' = "built"
    /\ IdleUnchanged

RootNext ==
    \/ get_new_root_cause_call
    \/ create_record

RootSpec == RootStart /\ [][RootNext]_vars

\* C20: the root cause resolved for a group is L01 or L06; a previous L01 or
\* L06 is kept whatever the document types; otherwise a DG item gives L06,
\* else a DZ or DA item gives L01; otherwise nothing is returned, the building
\* fails and no record is written; a record written carries the resolved code.
C20_RootCause ==
    pc \in {"resolved", "built"}
    => LET prev == invoked.rt_cause
           types == invoked.doc_types
           new == invoked.new_root_cause
           failed == invoked.error # ""
       IN  /\ ~failed => new \in {"L01", "L06"}
           /\ prev \in {"L01", "L06"} => ~failed /\ new = prev
           /\ (prev \notin {"L01", "L06"} /\ "DG" \in types) => ~failed /\ new = "L06"
           /\ (prev \notin {"L01", "L06"} /\ "DG" \notin types
               /\ ("DZ" \in types \/ "DA" \in types)) => ~failed /\ new = "L01"
           /\ (prev \notin {"L01", "L06"} /\ types \cap {"DG", "DZ", "DA"} = {}) => failed
           /\ pc = "built"
              => /\ InAccum(accum, EvalEntity, "clearing_input") <=> ~failed
                 /\ ~failed
                    => get_from_accum(accum, EvalEntity, "clearing_input").Root_Cause = new

C20_Witness ==
    /\ pc = "built"
    /\ invoked.rt_cause = "L06"
    /\ invoked.doc_types = {"DZ", "DA"}
    /\ InAccum(accum, EvalEntity, "clearing_input")
    /\ get_from_accum(accum, EvalEntity, "clearing_input").Root_Cause = "L06"

----
\* ---------------- create_clearing_input row by row (biaProcessor 794-838,
\* 948-1094) ----------------

NOT_APPLICABLE == "NA"

\* a matched ledger item with the case columns of the merge
MatchedRow(i, curr, id, tax, amount, categ) ==
    [Index |-> i, Currency |-> curr, ID |-> id, Tax |-> tax, DC_Amount |-> amount,
     Head_Office |-> 1, Category |-> categ, Root_Cause |-> "L14",
     Document_Type |-> "DZ"]

\* "".join(tax_codes) for the codes of a matched group: at most one is not empty
join_tax_codes(tax_codes) ==
    IF tax_codes \ {NULL_TAX} = {} THEN NULL_TAX
    ELSE CHOOSE t \in tax_codes \ {NULL_TAX} : TRUE

\* _get_tax_code, with the variant that asks the head office before the currency
get_tax_code_swapped(curr, tax_codes, cocd_rules, hd_off, categ, ent_rules) ==
    LET own == IF cocd_rules.diff_universal_tax_code # NOT_APPLICABLE
               THEN cocd_rules.diff_universal_tax_code
               ELSE join_tax_codes(tax_codes)
    IN  IF own # NULL_TAX THEN own
        ELSE IF hd_off \in DOMAIN ent_rules.head_office_taxes
        THEN ent_rules.head_office_taxes[hd_off]
        ELSE IF curr \in DOMAIN cocd_rules.currency_taxes
        THEN cocd_rules.currency_taxes[curr]
        ELSE IF categ \in DOMAIN cocd_rules.category_taxes
        THEN cocd_rules.category_taxes[categ]
        ELSE IF cocd_rules.unused_tax_code = NOT_APPLICABLE THEN ""
        ELSE cocd_rules.unused_tax_code
get_tax_code(curr, tax_codes, cocd_rules, hd_off, categ, ent_rules) ==
    LET own == IF cocd_rules.diff_universal_tax_code # NOT_APPLICABLE
               THEN cocd_rules.diff_universal_tax_code
               ELSE join_tax_codes(tax_codes)
    IN  IF own # NULL_TAX THEN own
        ELSE IF curr \in DOMAIN cocd_rules.currency_taxes
        THEN cocd_rules.currency_taxes[curr]
        ELSE IF hd_off \in DOMAIN ent_rules.head_office_taxes
        THEN ent_rules.head_office_taxes[hd_off]
        ELSE IF categ \in DOMAIN cocd_rules.category_taxes
        THEN cocd_rules.category_taxes[categ]
        ELSE IF cocd_rules.unused_tax_code = NOT_APPLICABLE THEN ""
        ELSE cocd_rules.unused_tax_code

\* _get_gl_account_params, with the variant that asks the sign before the category
get_gl_account_params_signed(rest_amnt, ent_rules, categ) ==
    IF rest_amnt = 0 THEN None
    ELSE IF "write_off_debits" \in DOMAIN ent_rules.gl_accounts /\ rest_amnt > 0
    THEN ent_rules.gl_accounts["write_off_debits"]
    ELSE IF "write_off_credits" \in DOMAIN ent_rules.gl_accounts /\ rest_amnt < 0
    THEN ent_rules.gl_accounts["write_off_credits"]
    ELSE IF "penalties" \in DOMAIN ent_rules.gl_accounts /\ categ \in {"010", "011", "012"}
    THEN ent_rules.gl_accounts["penalties"]
    ELSE ent_rules.gl_accounts["write_off_common"]
get_gl_account_params(rest_amnt, ent_rules, categ) ==
    IF rest_amnt = 0 THEN None
    ELSE IF "penalties" \in DOMAIN ent_rules.gl_accounts /\ categ \in {"010", "011", "012"}
    THEN ent_rules.gl_accounts["penalties"]
    ELSE IF "write_off_debits" \in DOMAIN ent_rules.gl_accounts /\ rest_amnt > 0
    THEN ent_rules.gl_accounts["write_off_debits"]
    ELSE IF "write_off_credits" \in DOMAIN ent_rules.gl_accounts /\ rest_amnt < 0
    THEN ent_rules.gl_accounts["write_off_credits"]
    ELSE ent_rules.gl_accounts["write_off_common"]

\* biaProcessor 1034-1054 with cust_data None (biaCore 827 passes none):
\* differing cost centers fail the assertion
gl_account_and_cost_center(gl_acc_type) ==
    IF gl_acc_type = None
    THEN [error |-> "", gl_acc |-> NOT_APPLICABLE, cost_center |-> NOT_APPLICABLE]
    ELSE IF gl_acc_type.cost_center.trade = gl_acc_type.cost_center.retail
    THEN [error |-> "", gl_acc |-> gl_acc_type.number,
          cost_center |-> gl_acc_type.cost_center.trade]
    ELSE [error |-> "AssertionError", gl_acc |-> NOT_APPLICABLE,
          cost_center |-> NOT_APPLICABLE]

\* the skip tests of biaProcessor 1020-1023 and 1056-1058; the message is the
\* sequence of its parts.  The variant before it leaves the second test out.
skip_reasons_tax_only(tax_code, cocd_rules, ent_rules) ==
    IF tax_code = NULL_TAX THEN <<"No tax code used!">> ELSE <<>>
skip_reasons(tax_code, cocd_rules, ent_rules) ==
    (IF tax_code = NULL_TAX THEN <<"No tax code used!">> ELSE <<>>)
    \o (IF tax_code \in ent_rules.skipped_taxes \cup cocd_rules.skipped_taxes
        THEN <<"Clearing skipped based on tax exclusion criteria">>
        ELSE <<>>)

\* the loop body of create_clearing_input for the rows S of one currency and
\* one identifier (biaProcessor 989-1083)
build_record(matched, S, curr, id_num, cocd_rules, ent_rules) ==
    LET first == CHOOSE i \in S : \A j \in S : i <= j
        categ == matched[first].Category
        rest_amnt == dc_amnts_sum(matched, S)
        tax_code == get_tax_code(curr, {matched[i].Tax : i \in S}, cocd_rules,
                                 matched[first].Head_Office, categ, ent_rules)
        new_root_cause == get_new_root_cause(matched[first].Root_Cause,
                                             {matched[i].Document_Type : i \in S})
        gl == gl_account_and_cost_center(
                  get_gl_account_params(rest_amnt, ent_rules, categ))
        msg == skip_reasons(tax_code, cocd_rules, ent_rules)
    IN  IF new_root_cause = Unbound THEN [error |-> Unbound]
        ELSE IF gl.error # "" THEN [error |-> gl.error]
        ELSE [error |-> "",
              record |-> [Skipped |-> msg # <<>>, Message |-> msg,
                          Case_IDs |-> <<id_num>>, Currency |-> curr,
                          Tax_Code |-> tax_code, Root_Cause |-> new_root_cause,
                          GL_Account |-> gl.gl_acc, Cost_Center |-> gl.cost_center,
                          Rest_Amount |-> rest_amnt]]

\* create_clearing_input(matched, cocd_rules, ent_rules)
CreateClearingInput(matched, cocd_rules, ent_rules) ==
    LET currencies == {matched[i].Currency : i \in DOMAIN matched}
        curr_items(c) == {i \in DOMAIN matched : matched[i].Currency = c}
        cases(c) == {matched[i].ID : i \in curr_items(c)}
        rec(c, id) == build_record(matched,
                                   {i \in curr_items(c) : matched[i].ID = id},
                                   c, id, cocd_rules, ent_rules)
        failed == \E c \in currencies : \E id \in cases(c) : rec(c, id).error # ""
    IN  IF failed
        THEN [error |-> CHOOSE x \in {rec(k[1], k[2]).error :
                                       k \in {kk \in currencies \X RealIds :
                                                 kk[2] \in cases(kk[1])}} : x # "",
              output |-> None]
        ELSE [error |-> "",
              output |-> [c \in currencies |->
                            [records |-> [id \in cases(c) |-> rec(c, id).record],
                             Cleared |-> FALSE,
                             Matched_Count |-> Cardinality(curr_items(c))]]]

\* the optional account types of an entity (biaProcessor 829-834)
OptionalAccounts == {"penalties", "write_off_debits", "write_off_credits"}

\* ent_rules["gl_accounts"] with the given optional entries; the cost centers
\* of trade and retail equal or not
GlAccounts(optional, differ) ==
    [a \in optional \cup {"write_off_common"} |->
        [number |-> a,
         cost_center |-> [trade |-> "cc_trade",
                          retail |-> IF differ THEN "cc_retail" ELSE "cc_trade"]]]

CocdRules(universal, currency_taxes, category_taxes, unused, skipped) ==
    [diff_universal_tax_code |-> universal, currency_taxes |-> currency_taxes,
     category_taxes |-> category_taxes, unused_tax_code |-> unused,
     skipped_taxes |-> skipped]

EntRules(head_office_taxes, skipped, gl_accounts) ==
    [head_office_taxes |-> head_office_taxes, skipped_taxes |-> skipped,
     gl_accounts |-> gl_accounts]

\* the matched rows of one group under every combination of rule tables
GroupStart ==
    /\ Idle
    /\ pc = "matched"
    /\ \E curr \in {"EUR", "USD"}, tax \in {NULL_TAX, "YR"}, categ \in {"010", "020"},
          amounts \in {<<2, -1>>, <<1, -1>>, <<1, -2>>} :
         accum = store_to_accum(EmptyAccum, EvalEntity, "matched_data",
                     <<MatchedRow(1, curr, 1, tax, amounts[1], categ),
                       MatchedRow(2, curr, 1, NULL_TAX, amounts[2], categ)>>)
    /\ \E universal \in {NOT_APPLICABLE, "U1"}, unused \in {NOT_APPLICABLE, "N1"},
          currency_taxes \in {EmptyMap, "EUR" :> "C1"},
          category_taxes \in {EmptyMap, "010" :> "K1"},
          head_office_taxes \in {EmptyMap, 1 :> "H1"},
          optional \in SUBSET OptionalAccounts, differ \in BOOLEAN :
         invoked = [cocd_rules |-> CocdRules(universal, currency_taxes,
                                             category_taxes, unused, {}),
                    ent_rules |-> EntRules(head_office_taxes, {},
                                           GlAccounts(optional, differ)),
                    error |-> ""]

\* matched rows of several currencies and identifiers, the rows of one
\* identifier bearing at most one tax code that is not empty
InstrStart ==
    /\ Idle
    /\ pc = "matched"
    /\ \E n \in 1..MaxRows :
         \E cols \in [1..n -> {"EUR", "USD"} \X RealIds \X {NULL_TAX, "YR", "SK"}] :
             /\ \A i \in 1..n : \A j \in 1..n :
                    (cols[i][2] = cols[j][2] /\ cols[i][3] # NULL_TAX
                     /\ cols[j][3] # NULL_TAX) => cols[i][3] = cols[j][3]
             /\ accum = store_to_accum(EmptyAccum, EvalEntity, "matched_data",
                            [i \in 1..n |-> MatchedRow(i, cols[i][1], cols[i][2],
                                                       cols[i][3], 1, "020")])
    /\ \E unused \in {NOT_APPLICABLE, "N1"},
          cocd_skipped \in SUBSET {"SK"}, ent_skipped \in SUBSET {"SK"} :
         invoked = [cocd_rules |-> CocdRules(NOT_APPLICABLE, EmptyMap, EmptyMap,
                                             unused, cocd_skipped),
                    ent_rules |-> EntRules(EmptyMap, ent_skipped,
                                           GlAccounts({}, FALSE)),
                    error |-> ""]

\* biaCore 825-829
create_clearing_input_call ==
    /\ pc = "matched"
    /\ LET clr == CreateClearingInput(Matched, invoked.cocd_rules, invoked.ent_rules)
       IN  IF clr.error # ""
           THEN /\ invoked' = [invoked EXCEPT !.error = clr.error]
                /\ UNCHANGED accum
           ELSE /\ accum' = store_to_accum(accum, EvalEntity, "clearing_input",
                                           clr.output)
                /\ UNCHANGED invoked
    /\ pc' = "built"
    /\ IdleUnchanged

GroupSpec == GroupStart /\ [][create_clearing_input_call]_vars

InstrSpec == InstrStart /\ [][create_clearing_input_call]_vars

\* the instruction document built, and the record of the one group of GroupSpec
ClrInput == get_from_accum(accum, EvalEntity, "clearing_input")

Built == pc = "built" /\ invoked.error = ""

TheRecord == ClrInput[Matched[1].Currency].records[1]

\* C21: the tax code of the record is the universal override when one is
\* configured; else the group's own tax code when it has one; else the entry
\* of its currency; else of its head office; else of its category; else the
\* unused tax code when configured; else empty.
C21_TaxPrecedence ==
    Built
    => LET cocd == invoked.cocd_rules
           ent == invoked.ent_rules
           g == Matched[1]
           own == {Matched[i].Tax : i \in DOMAIN Matched} \ {NULL_TAX}
           tax == TheRecord.Tax_Code
           universal == cocd.diff_universal_tax_code # NOT_APPLICABLE
           byCurr == g.Currency \in DOMAIN cocd.currency_taxes
           byOffice == g.Head_Office \in DOMAIN ent.head_office_taxes
           byCateg == g.Category \in DOMAIN cocd.category_taxes
           none == ~universal /\ own = {}
       IN  /\ universal => tax = cocd.diff_universal_tax_code
           /\ (~universal /\ own # {}) => tax \in own
           /\ (none /\ byCurr) => tax = cocd.currency_taxes[g.Currency]
           /\ (none /\ ~byCurr /\ byOffice) => tax = ent.head_office_taxes[g.Head_Office]
           /\ (none /\ ~byCurr /\ ~byOffice /\ byCateg)
              => tax = cocd.category_taxes[g.Category]
           /\ (none /\ ~byCurr /\ ~byOffice /\ ~byCateg)
              => tax = (IF cocd.unused_tax_code = NOT_APPLICABLE THEN ""
                        ELSE cocd.unused_tax_code)

C21_Witness ==
    /\ Built
    /\ TheRecord.Tax_Code = "C1"
    /\ invoked.ent_rules.head_office_taxes # EmptyMap
    /\ invoked.cocd_rules.category_taxes # EmptyMap
    /\ Matched[1].Category = "010"
    /\ invoked.cocd_rules.unused_tax_code = "N1"

\* C22: the document holds one record for each currency and identifier of
\* the matched rows and nothing else, and a record is flagged Skipped, with a
\* message, exactly when its tax code is empty or on the skip list of the
\* company code or of the entity.
C22_OneRecordPerGroup ==
    pc = "built"
    => /\ invoked.error = ""
       /\ DOMAIN ClrInput = {Matched[i].Currency : i \in DOMAIN Matched}
       /\ \A c \in DOMAIN ClrInput :
            /\ DOMAIN ClrInput[c].records
               = {Matched[i].ID : i \in {j \in DOMAIN Matched : Matched[j].Currency = c}}
            /\ \A id \in DOMAIN ClrInput[c].records :
                 LET r == ClrInput[c].records[id]
                 IN  /\ r.Currency = c
                     /\ r.Skipped
                        <=> \/ r.Tax_Code = ""
                            \/ r.Tax_Code \in invoked.cocd_rules.skipped_taxes
                            \/ r.Tax_Code \in invoked.ent_rules.skipped_taxes
                     /\ r.Skipped <=> r.Message # <<>>

C22_Witness ==
    /\ pc = "built"
    /\ Cardinality(DOMAIN ClrInput) = 2
    /\ \E c \in DOMAIN ClrInput : \E id \in DOMAIN ClrInput[c].records :
         /\ ClrInput[c].records[id].Skipped
         /\ ClrInput[c].records[id].Tax_Code = "SK"
    /\ \E c \in DOMAIN ClrInput : \E id \in DOMAIN ClrInput[c].records :
         /\ ~ClrInput[c].records[id].Skipped
         /\ Cardinality(DOMAIN ClrInput[c].records) = 2

\* C23: a rest amount of 0 gives no GL account and no cost center; otherwise
\* the penalty account when configured and the category is 010, 011 or 012;
\* otherwise the write-off-debit account for a positive rest when
\* configured, the write-off-credit account for a negative rest when
\* configured; in every other case the common write-off account.
C23_GlAccount ==
    pc = "built"
    => LET accounts == DOMAIN invoked.ent_rules.gl_accounts
           rest == Matched[1].DC_Amount + Matched[2].DC_Amount
           categ == Matched[1].Category
           expected ==
               IF "penalties" \in accounts /\ categ \in {"010", "011", "012"}
               THEN "penalties"
               ELSE IF rest > 0 /\ "write_off_debits" \in accounts THEN "write_off_debits"
               ELSE IF rest < 0 /\ "write_off_credits" \in accounts THEN "write_off_credits"
               ELSE "write_off_common"
       IN  /\ rest = 0 => /\ invoked.error = ""
                          /\ TheRecord.GL_Account = NOT_APPLICABLE
                          /\ TheRecord.Cost_Center = NOT_APPLICABLE
           /\ (rest # 0 /\ invoked.error = "")
              => TheRecord.GL_Account = invoked.ent_rules.gl_accounts[expected].number

C23_Witness ==
    /\ Built
    /\ TheRecord.Rest_Amount < 0
    /\ TheRecord.GL_Account = "write_off_credits"
    /\ "penalties" \in DOMAIN invoked.ent_rules.gl_accounts
    /\ "write_off_debits" \in DOMAIN invoked.ent_rules.gl_accounts

----
\* ---------------- posting and closing of documents with several buckets
\* (biaCore 833-1190) ----------------

\* an instruction document of two buckets: two groups in EUR, one in USD,
\* each skipped or not (biaProcessor 1065-1092)
InstrDoc(skipped) ==
    ("EUR" :> NewBucket(("g1" :> NewRecord(skipped["g1"], <<"c1">>, "L01", "std"))
                        @@ ("g2" :> NewRecord(skipped["g2"], <<"c2">>, "L01", "std"))))
    @@ ("USD" :> NewBucket("g3" :> NewRecord(skipped["g3"], <<"c3">>, "L01", "std")))

\* the stages main() has been through when it enters clear_open_items
StagesDone ==
    {"export_fbl5n", "load_fbl5n", "export_dms", "load_dms", "consolidate",
     "generate"}

OpsDone ==
    {"fbl5n_export", "fbl5n_convert", "dms_export", "dms_convert",
     "consolidate", "evaluate", "create_clearing_input"}

KeysDone ==
    {"fbl5n_data_exported", "fbl5n_data_converted", "dms_data_exported",
     "dms_data_converted", "data_consolidated", "data_analyzed",
     "f30_input_generated"}

\* main() at app.py 112 in a first run over one entity whose matched items
\* gave the instruction document clr: checkpoints, accumulator and files as
\* the stages up to generate_clearing_input leave them
AtClearing(e, clr) ==
    LET states == e :> [k \in StateKeys |-> k \in KeysDone]
        fbl5n == preprocess_fbl5n_data("match")
        dms == preprocess_dms_data("cases")
        consolid == consolidate(fbl5n, dms, "absent")
        analyzed == evaluate_items(consolid)
        matched == get_matched_items(analyzed)
        one(x) == e :> x
    IN  /\ rec_file = [exists |-> TRUE, doc |-> states]
        /\ ent_states = [isNone |-> FALSE, map |-> states]
        /\ accum = [k \in AccumKeys |->
                       CASE k = "fbl5n_data" -> one(fbl5n)
                         [] k = "dms_data" -> one(dms)
                         [] k = "consolidated_data" -> one(consolid)
                         [] k = "analyzed_data" -> one(analyzed)
                         [] k = "matched_data" -> one(matched)
                         [] k = "clearing_input" -> one(clr)
                         [] OTHER -> EmptyMap]
        /\ files = [k \in FileKeys |->
                       CASE k = "fbl5n_export" -> one("match")
                         [] k = "dms_export" -> one("cases")
                         [] k = "fbl5n_binary" -> one(fbl5n)
                         [] k = "dms_binary" -> one(dms)
                         [] k = "consolidated" -> one(consolid)
                         [] k = "analyzed" -> one(analyzed)
                         [] k = "matched" -> one(matched)
                         [] k = "clearing_input" -> one(to_json(clr))
                         [] OTHER -> EmptyMap]
        /\ backend = NewCycle
        /\ pc = "clear"
        /\ idx = 0
        /\ entits = <<e>>
        /\ deviations = 0
        /\ sess = "ok"
        /\ success = FALSE
        /\ exit_code = 0
        /\ start_states = reset_entity_states(<<e>>)
        /\ prev_failure = FALSE
        /\ invoked = {<<e, op>> : op \in OpsDone}
        /\ handled = {<<e, stage>> : stage \in StagesDone}
        /\ faults = {}
        /\ reports = EmptyMap
        /\ abort_cause = "none"

PostInit == \E skipped \in [GroupIds -> BOOLEAN] : AtClearing(EvalEntity, InstrDoc(skipped))

PostSpec == PostInit /\ [][Next]_vars

\* the instruction document of the entity as persisted in this cycle
InstrFile(e) ==
    IF FileExists(files, e, "clearing_input") THEN files["clearing_input"][e]
    ELSE EmptyMap

\* <<currency, group>> of the skipped records of the entity
SkippedGroups(e) ==
    {cg \in Currencies \X GroupIds :
        /\ cg[1] \in DOMAIN InstrFile(e)
        /\ cg[2] \in DOMAIN InstrFile(e)[cg[1]].records
        /\ InstrFile(e)[cg[1]].records[cg[2]].Skipped}

\* the documents the accumulator holds for the entity under the key
DocsOf(e, key) ==
    IF InAccum(accum, e, key) /\ get_from_accum(accum, e, key) # None
    THEN {get_from_accum(accum, e, key)} ELSE {}

SeqRange(seq) == {seq[i] : i \in DOMAIN seq}

BucketsOfCase(e, case) ==
    {c \in DOMAIN InstrFile(e) :
        \E g \in DOMAIN InstrFile(e)[c].records :
            case \in SeqRange(InstrFile(e)[c].records[g].Case_IDs)}

BucketsOfGroup(e, g) ==
    {c \in DOMAIN InstrFile(e) : g \in DOMAIN InstrFile(e)[c].records}

PostedFor(e, cs) ==
    /\ e \in DOMAIN rec_file.doc
    /\ rec_file.doc[e]["f30_items_cleared"]
    /\ \E c \in cs : backend.posts[e][c] >= 1

\* C27: a case is closed and a notification completed only for a group
\* whose bucket was posted for that entity, the entity's checkpoint
\* f30_items_cleared being true; nothing is closed in a bucket whose
\* loading, selection or posting failed.
C27_ClosingAfterPosting ==
    /\ \A ec \in backend.closed : PostedFor(ec[1], BucketsOfCase(ec[1], ec[2]))
    /\ \A eg \in backend.notified : PostedFor(eg[1], BucketsOfGroup(eg[1], eg[2]))

C27_Witness ==
    LET e == EvalEntity
    IN  /\ SkippedGroups(e) = {}
        /\ backend.posts[e] = ("EUR" :> 1) @@ ("USD" :> 0)
        /\ <<e, "clear", "postfail">> \in faults
        /\ {<<e, "c1">>, <<e, "c2">>} = backend.closed
        /\ {<<e, "g1">>, <<e, "g2">>} = backend.notified
        /\ pc = "report"

\* buckets of the entity's posting output that a fault left marked
FailedBuckets(e) ==
    {c \in Currencies :
        \E d \in DocsOf(e, "clearing_output") :
            /\ c \in DOMAIN d
            /\ ~d[c].Cleared
            /\ d[c].F30_Clearing_Status
               \in {PostStatus("loadfail"), PostStatus("postfail")}}

\* C31: when loading, selection or posting of a bucket of an entity met a
\* backend fault and the process was not killed, the stage has gone through
\* all buckets of the entity: the posting output is stored with that bucket
\* not Cleared under an error status, and the checkpoint f30_items_cleared
\* of the entity is true exactly when one of its buckets is Cleared.
C31_BucketFaultIsolated ==
    \A e \in Entities :
        ((\E o \in PostOutcomes : <<e, "clear", o>> \in faults) /\ pc # "killed")
        => /\ FailedBuckets(e) # {}
           /\ e \in DOMAIN rec_file.doc
           /\ rec_file.doc[e]["f30_items_cleared"]
              <=> \E d \in DocsOf(e, "clearing_output") :
                      \E c \in DOMAIN d : d[c].Cleared

\* app.py 132-140: the step that clears the store after a complete run
StoreCleared == pc = "cleanup" /\ pc' = "exited" /\ exit_code' = 0

\* C32: a checkpoint that is true in the persisted document stays true in
\* every step of this and of later runs, the clearing of the store at
\* successful completion excepted.
C32_Monotonic ==
    [][\A e \in DOMAIN rec_file.doc : \A key \in StateKeys :
          rec_file.doc[e][key]
          => \/ StoreCleared
             \/ /\ e \in DOMAIN rec_file'.doc
                /\ rec_file'.doc[e][key]]_vars

C32_Witness ==
    /\ prev_failure
    /\ \E e \in DOMAIN rec_file.doc :
         /\ e \in DOMAIN start_states
         /\ start_states[e]["f30_items_cleared"]
         /\ rec_file.doc[e]["f30_items_cleared"]
         /\ <<e, "clear">> \in handled
         /\ <<e, "f30_post">> \notin invoked
         /\ InAccum(accum, e, "clearing_output")

\* C33: no run, fresh or resumed, ends because get_from_accum found no
\* entry of the entity or because a store that is not forced found one.
C33_AccumulatorConsistent == abort_cause \notin {NoEntry, "accum_assert"}

C33_Witness ==
    /\ prev_failure
    /\ abort_cause = "none"
    /\ \E e \in DOMAIN reports :
         /\ e \in DOMAIN start_states
         /\ start_states[e]["qm_notifications_processed"]
         /\ reports[e].cleared.tag = "cleared"

\* C34: once recovery is initialized every entity selected for the run has
\* a checkpoint entry holding all stage keys, and no stage fails to read
\* or save the checkpoint of an entity.
C34_EntriesForSelected ==
    /\ pc = "connect"
       => \A e \in EntitySet :
              /\ e \in DOMAIN ent_states.map
              /\ \A key \in StateKeys : key \in DOMAIN ent_states.map[e]
    /\ abort_cause # "KeyError"

\* a run that resumed the checkpoints of a failed run of the same entities
\* and met no fault of its own has ended
ResumedRunEnded ==
    /\ prev_failure
    /\ DOMAIN start_states = EntitySet
    /\ faults = {}
    /\ sess # "None"
    /\ pc \in {"exited", "uncaught"}

\* C35: a resumed run that meets no further fault ends with exit code 0
\* and an empty checkpoint store, or at least leaves more checkpoints
\* reached than it found, so that re-running converges.
C35_ResumeConverges ==
    ResumedRunEnded
    => \/ pc = "exited" /\ exit_code = 0 /\ rec_file.doc = EmptyMap
       \/ rec_file.doc # start_states

----
\* ---------------- closing the cases of a virtual group
\* (biaCore 1026-1053) ----------------

\* an instruction document whose one record stands for a virtual group of
\* two cases (biaProcessor 1025-1028, 1065-1092)
VirtualDoc ==
    "EUR" :> NewBucket("g1" :> NewRecord(FALSE, <<"c1", "c2">>, "L01", "std"))

CaseInit == AtClearing(EvalEntity, VirtualDoc)

CaseSpec == CaseInit /\ [][Next]_vars

\* C36: a record's closing status reads 'Case closed.' only if every case
\* of the record was closed.
C36_ClosedOnlyIfAllClosed ==
    \A e \in Entities : \A d \in DocsOf(e, "dms_closing_output") :
        \A c \in DOMAIN d : \A g \in DOMAIN d[c].records :
            d[c].records[g].DMS_Closing_Status = CaseStatus("ok")
            => \A i \in DOMAIN d[c].records[g].Case_IDs :
                   <<e, d[c].records[g].Case_IDs[i]>> \in backend.closed

----
\* ---------------- the flags of the rows of one identifier
\* (biaProcessor 695-701, 743-792) ----------------

\* C37: after evaluate_items on rows whose flags are all false, the rows
\* that share an identifier carry the same three flags, a row with Tax_Match
\* or Amount_Match has ID_Match, and get_matched_items returns the rows of
\* an identifier all or none.
C37_GroupsUniform ==
    /\ pc \in {"analyzed", "matched"}
       => \A i \in DOMAIN Analyzed :
              /\ (Analyzed[i].Tax_Match \/ Analyzed[i].Amount_Match)
                 => Analyzed[i].ID_Match
              /\ \A j \in DOMAIN Analyzed :
                     Analyzed[i].ID = Analyzed[j].ID
                     => /\ Analyzed[i].ID_Match = Analyzed[j].ID_Match
                        /\ Analyzed[i].Tax_Match = Analyzed[j].Tax_Match
                        /\ Analyzed[i].Amount_Match = Analyzed[j].Amount_Match
    /\ pc = "matched"
       => \A i \in DOMAIN Consolid : \A j \in Group(i) :
              Returned(i) <=> Returned(j)

C37_Witness ==
    /\ pc = "matched"
    /\ \E i \in DOMAIN Analyzed : \E j \in DOMAIN Analyzed :
         /\ i # j
         /\ Analyzed[i].ID = Analyzed[j].ID
         /\ Analyzed[i].ID_Match /\ Analyzed[i].Amount_Match
         /\ ~Analyzed[i].Tax_Match
         /\ ~Returned(i) /\ ~Returned(j)
    /\ \E k \in DOMAIN Analyzed : Analyzed[k].ID # NA /\ ~Analyzed[k].ID_Match

----
\* ---------------- the cases of a virtual group (biaProcessor 659-666,
\* 998-1028) ----------------

\* the case numbers the ledger items were parsed to
RealCases == {Fbl5n[i].ID : i \in DOMAIN Fbl5n} \ {NA}

\* ledger item i was given a virtual ID by _virtualize
Virtualized(i) == virtualize(Fbl5n, VirtualBase).data[i].Virtual_ID # NA

GroupCases == get_from_accum(accum, EvalEntity, "clearing_input")

\* C38: a row that was given a virtual ID holds a synthetic identifier in ID
\* and its own case number in Virtual_ID, every other row keeps its ID and
\* has no Virtual_ID; the Case_IDs of a group are the Virtual_ID values of
\* its rows when it has any, and each of them is a case number of a ledger
\* item.
C38_RealCaseIds ==
    pc = "grouped"
    => /\ \A i \in DOMAIN Fbl5n :
              IF Virtualized(i)
              THEN /\ \E k \in DOMAIN invoked.allocated :
                          RowOf(i).ID = invoked.allocated[k]
                   /\ RowOf(i).Virtual_ID = Fbl5n[i].ID
                   /\ Fbl5n[i].ID # NA
              ELSE /\ RowOf(i).ID = Fbl5n[i].ID
                   /\ RowOf(i).Virtual_ID = NA
       /\ \A id_num \in DOMAIN GroupCases :
              LET members == {Consolid[k].Virtual_ID :
                                 k \in id_recs(Consolid, id_num)} \ {NA}
              IN  /\ SeqRange(GroupCases[id_num])
                         = IF members = {} THEN {id_num} ELSE members
                  /\ SeqRange(GroupCases[id_num]) \subseteq RealCases

C38_Witness ==
    /\ pc = "grouped"
    /\ \E id_num \in DOMAIN GroupCases :
         /\ id_num >= VirtualBase
         /\ Len(GroupCases[id_num]) = 2
    /\ \E i \in DOMAIN Fbl5n : ~Virtualized(i)

----
\* ---------------- the instruction data during posting (biaCore 888-951)
\* ----------------

\* C39: clear_open_items leaves the accumulator's clearing_input entries as
\* they were; what posting did is recorded in clearing_output only.
C39_InputPreserved ==
    [][pc = "clear"
       => accum'["clearing_input"] = accum["clearing_input"]]_vars
====
